---- MODULE Spec2Model ----
(***************************************************************************)
(* A model of the game-server monitor (src/ov): the record store's tables, *)
(* the session lifecycle engine (session_manager.get_active_session), the  *)
(* wave-end snapshotter (session_manager.save_wave_end_snapshot), the      *)
(* player ledger (player_manager.update_player_record), the aggregation    *)
(* folds (update_player_playtimes, update_death_statistics), the monitor's *)
(* start-up recovery and per-server task (server_monitor), the reports of  *)
(* recent deaths and redemptions, and the task queue with its worker       *)
(* threads and the polling thread.                                         *)
(*                                                                         *)
(* Conventions.  Python's None is the integer None (-1) in numeric columns *)
(* and NullText in text columns.  A table is a sequence of rows; a row's   *)
(* AUTOINCREMENT id is its index.  Time is counted in minutes.  Texts that *)
(* the code parses (the wave indicator) are sequences of one-character     *)
(* strings.  Every operation is a function from a database value (a record *)
(* of the tables) to a database value, so that a handler which calls       *)
(* several operations in a row is their composition.  Columns that no      *)
(* statement of the code reads back (player_name, max_players, the         *)
(* score_history and team_status logs) are left out.                       *)
(***************************************************************************)
EXTENDS Integers, Sequences, FiniteSets, TLC

VARIABLES
    servers,             \* table servers
    game_sessions,       \* table game_sessions
    server_status,       \* table server_status
    wave_end_records,    \* table wave_end_records
    player_wave_scores,  \* table player_wave_scores
    player_records,      \* table player_records
    player_team_scores,  \* table player_team_scores (the stints)
    player_team_changes, \* table player_team_changes
    player_stats,        \* table player_stats
    player_team_stats,   \* table player_team_stats
    player_death_stats,  \* table player_death_stats
    player_redeem_stats, \* table player_redeem_stats
    clock,               \* datetime.now(), in minutes
    phase,               \* the monitor process: "stopped", "running", or
                         \* "stopping" once stop_event is set
    cycles,              \* number of per-server tasks processed so far
    calls,               \* number of direct calls and report steps so far
    last,                \* the last operation: its arguments and its result
    reports,             \* the DEATH and REDEEM lines logged so far
    reported_death_ids,  \* redemption_stats._reported_death_ids
    reported_redeem_ids, \* redemption_stats._reported_redeem_ids
    task_queue,          \* ServerMonitor.task_queue: the tasks not yet taken
    unfinished_tasks,    \* Queue.unfinished_tasks: put but not task_done
    workers,             \* per worker thread, the task it is running
    monitor,             \* the polling thread: its position and its cycle
    exited               \* the worker threads that have left their loop

tables == <<servers, game_sessions, server_status, wave_end_records, player_wave_scores,
            player_records, player_team_scores, player_team_changes,
            player_stats, player_team_stats, player_death_stats,
            player_redeem_stats>>

vars == <<servers, game_sessions, server_status, wave_end_records, player_wave_scores,
          player_records, player_team_scores, player_team_changes,
          player_stats, player_team_stats, player_death_stats,
          player_redeem_stats, clock, phase, cycles, calls, last,
          reports, reported_death_ids, reported_redeem_ids,
          task_queue, unfinished_tasks, workers, monitor, exited>>

\* the state of the reporting functions
reporter == <<reports, reported_death_ids, reported_redeem_ids>>

\* the task queue, the worker threads and the polling thread
pool == <<task_queue, unfinished_tasks, workers, monitor, exited>>

(***************************************************************************)
(* Bounds of the model.                                                    *)
(***************************************************************************)
MaxCycles == 3
MaxCalls == 2
ScenarioCycles == 4
RoundCycles == 3
ReturnCycles == 4
\* the worker threads that start() creates (min(4, os.cpu_count() or 4))
Workers == 2
\* the report steps of a behaviour
MaxReports == 3
\* the size the sets of reported ids are cut back to (1000 in the code)
ReportedIdsLimit == 1

(***************************************************************************)
(* Program constants.                                                      *)
(***************************************************************************)
None == -1
NullText == "NULL"
SESSION_TIMEOUT_MINUTES == 15
MIN_PLAYERS_FOR_SESSION == 1
TERMINAL_WAVE == 6
SECONDS_PER_MINUTE == 60
REPORT_WINDOW_MINUTES == 1

\* Python truthiness of an optional integer (if session_id:, if team_id:).
Truthy(x) == x # None /\ x # 0

\* x or 0
OrZero(x) == IF Truthy(x) THEN x ELSE 0

Max(a, b) == IF a >= b THEN a ELSE b

\* The ids (indices) of the rows of a table that satisfy a test, ascending.
RECURSIVE SetToSortedSeq(_)
SetToSortedSeq(S) ==
    IF S = {} THEN <<>>
    ELSE LET m == CHOOSE x \in S : \A y \in S : x <= y
         IN <<m>> \o SetToSortedSeq(S \ {m})

(***************************************************************************)
(* util.extract_wave_number / utils.extract_wave_number                    *)
(***************************************************************************)
Digits == <<"0", "1", "2", "3", "4", "5", "6", "7", "8", "9">>

IsDigit(c) == \E i \in 1..10 : Digits[i] = c

DigitVal(c) == (CHOOSE i \in 1..10 : Digits[i] = c) - 1

IsSpace(c) == c \in {" ", "\t", "\n", "\r"}

\* re.IGNORECASE on the letters of "Wave"
Lower(c) ==
    CASE c = "W" -> "w"
      [] c = "A" -> "a"
      [] c = "V" -> "v"
      [] c = "E" -> "e"
      [] OTHER -> c

\* the index after the run of characters satisfying a class that starts at i
RECURSIVE SkipSpaces(_, _)
SkipSpaces(t, i) ==
    IF i <= Len(t) /\ IsSpace(t[i]) THEN SkipSpaces(t, i + 1) ELSE i

\* int() of the maximal run of digits that starts at i (acc: value so far)
RECURSIVE ReadInt(_, _, _)
ReadInt(t, i, acc) ==
    IF i <= Len(t) /\ IsDigit(t[i])
    THEN ReadInt(t, i + 1, acc * 10 + DigitVal(t[i]))
    ELSE acc

\* re.search(r'Wave\s*(\d+)', t, re.IGNORECASE) matches at position i
WaveMatchAt(t, i) ==
    /\ i + 3 <= Len(t)
    /\ Lower(t[i]) = "w" /\ Lower(t[i + 1]) = "a"
    /\ Lower(t[i + 2]) = "v" /\ Lower(t[i + 3]) = "e"
    /\ LET j == SkipSpaces(t, i + 4) IN j <= Len(t) /\ IsDigit(t[j])

extract_wave_number(wave_text) ==
    IF wave_text = <<>> THEN None
    ELSE LET matches == {i \in 1..Len(wave_text) : WaveMatchAt(wave_text, i)}
             digits == {i \in 1..Len(wave_text) : IsDigit(wave_text[i])}
         IN IF matches # {}
            THEN LET i == CHOOSE x \in matches : \A y \in matches : x <= y
                 IN ReadInt(wave_text, SkipSpaces(wave_text, i + 4), 0)
            ELSE IF digits # {}
            THEN LET i == CHOOSE x \in digits : \A y \in digits : x <= y
                 IN ReadInt(wave_text, i, 0)
            ELSE None

\* faulty variant: the search for 'Wave' is left out
utils_extract_wave_number_FirstDigits(wave_text) ==
    IF wave_text = <<>> THEN None
    ELSE LET numbers == {i \in 1..Len(wave_text) : IsDigit(wave_text[i])}
         IN IF numbers # {}
            THEN ReadInt(wave_text,
                         CHOOSE x \in numbers : \A y \in numbers : x <= y, 0)
            ELSE None

\* utils.py, lines 4-16: the copy that status_manager and wave_manager import
utils_extract_wave_number(wave_text) ==
    IF wave_text = <<>> THEN None
    ELSE LET match == {i \in 1..Len(wave_text) : WaveMatchAt(wave_text, i)}
             numbers == {i \in 1..Len(wave_text) : IsDigit(wave_text[i])}
         IN IF match # {}
            THEN ReadInt(wave_text,
                         SkipSpaces(wave_text,
                             (CHOOSE x \in match : \A y \in match : x <= y)
                                 + 4), 0)
            ELSE IF numbers # {}
            THEN ReadInt(wave_text,
                         CHOOSE x \in numbers : \A y \in numbers : x <= y, 0)
            ELSE None

(***************************************************************************)
(* The record store.                                                       *)
(***************************************************************************)
DB == [servers |-> servers,
       game_sessions |-> game_sessions,
       server_status |-> server_status,
       wave_end_records |-> wave_end_records,
       player_wave_scores |-> player_wave_scores,
       player_records |-> player_records,
       player_team_scores |-> player_team_scores,
       player_team_changes |-> player_team_changes,
       player_stats |-> player_stats,
       player_team_stats |-> player_team_stats,
       player_death_stats |-> player_death_stats,
       player_redeem_stats |-> player_redeem_stats]

\* database.init_database on a fresh file: every table exists and is empty
EmptyDB == [servers |-> <<>>,
            game_sessions |-> <<>>,
            server_status |-> <<>>,
            wave_end_records |-> <<>>,
            player_wave_scores |-> <<>>,
            player_records |-> <<>>,
            player_team_scores |-> <<>>,
            player_team_changes |-> <<>>,
            player_stats |-> <<>>,
            player_team_stats |-> <<>>,
            player_death_stats |-> <<>>,
            player_redeem_stats |-> <<>>]

\* the tables after an operation that left the database db
Store(db) ==
    /\ servers' = db.servers
    /\ game_sessions' = db.game_sessions
    /\ server_status' = db.server_status
    /\ wave_end_records' = db.wave_end_records
    /\ player_wave_scores' = db.player_wave_scores
    /\ player_records' = db.player_records
    /\ player_team_scores' = db.player_team_scores
    /\ player_team_changes' = db.player_team_changes
    /\ player_stats' = db.player_stats
    /\ player_team_stats' = db.player_team_stats
    /\ player_death_stats' = db.player_death_stats
    /\ player_redeem_stats' = db.player_redeem_stats

(***************************************************************************)
(* session_manager.save_wave_end_snapshot                                  *)
(***************************************************************************)
\* rows of player_records of a session, as ids in id order (SELECT ... WHERE
\* session_id = ?)
SessionPlayers(db, session_id) ==
    SetToSortedSeq({i \in 1..Len(db.player_records) :
                        db.player_records[i].session_id = session_id})

\* the player_wave_scores rows of lines 127-155, one per fetched player
RECURSIVE WaveScoreRows(_, _, _)
WaveScoreRows(db, wave_end_id, players) ==
    IF players = <<>> THEN <<>>
    ELSE LET p == db.player_records[Head(players)]
         IN <<[wave_end_id |-> wave_end_id,
               player_id |-> Head(players),
               steam_id |-> p.steam_id,
               team_id |-> p.team_id,
               score |-> p.current_score,
               is_bot |-> p.is_bot]>>
            \o WaveScoreRows(db, wave_end_id, Tail(players))

\* lines 14-17: an absent wave becomes wave 0 and, for every reason but
\* "Timeout" and "Server Restart", the reason becomes "Game Start"
SnapshotWave(wave_number) == IF wave_number = None THEN 0 ELSE wave_number

SnapshotReason(wave_number, reason) ==
    IF wave_number = None /\ reason # "Timeout" /\ reason # "Server Restart"
    THEN "Game Start"
    ELSE reason

\* faulty variant: the lookup forgets the reason
SnapshotExists_IgnoresReason(db, session_id, wave_number, reason) ==
    \E i \in 1..Len(db.wave_end_records) :
        /\ db.wave_end_records[i].session_id = session_id
        /\ db.wave_end_records[i].wave_number = wave_number

\* lines 23-32: a wave_end_records row exists for (session, wave, reason)
SnapshotExists(db, session_id, wave_number, reason) ==
    \E i \in 1..Len(db.wave_end_records) :
        /\ db.wave_end_records[i].session_id = session_id
        /\ db.wave_end_records[i].wave_number = wave_number
        /\ db.wave_end_records[i].reason = reason

save_wave_end_snapshot(db, session_id, wave_number, reason, now) ==
    IF ~Truthy(session_id) THEN db
    ELSE LET w == SnapshotWave(wave_number)
             r == SnapshotReason(wave_number, reason)
         IN IF SnapshotExists(db, session_id, w, r) THEN db
            \* FOREIGN KEY (session_id): the INSERT of line 86 raises for a
            \* session that does not exist, and line 98 returns
            ELSE IF session_id \notin 1..Len(db.game_sessions) THEN db
            ELSE LET wave_end_id == Len(db.wave_end_records) + 1
                     players == SessionPlayers(db, session_id)
                 IN [db EXCEPT
                       !.wave_end_records =
                           Append(@, [session_id |-> session_id,
                                      wave_number |-> w,
                                      timestamp |-> now,
                                      reason |-> r]),
                       !.player_wave_scores =
                           @ \o WaveScoreRows(db, wave_end_id, players)]

(***************************************************************************)
(* session_manager.determine_session_result                                *)
(***************************************************************************)
determine_session_result(db, session_id, wave_number) ==
    IF session_id \in 1..Len(db.game_sessions)
    THEN LET survivors == db.game_sessions[session_id].team1_player_count
         IN IF wave_number = None
            THEN "Unknown Result - Missing Wave Data"
            ELSE IF wave_number = TERMINAL_WAVE /\ survivors > 0
            THEN "Win - Completed Wave 6"
            ELSE IF wave_number >= TERMINAL_WAVE
            THEN "Loss - No Survivors"
            ELSE "Loss - Ended on Wave " \o ToString(wave_number)
    ELSE "Unknown Result"

(***************************************************************************)
(* player_manager.update_player_playtimes                                  *)
(***************************************************************************)
\* ids of the stints of a player record in a session, in id order
PlayerStints(db, player_id, session_id) ==
    SetToSortedSeq({i \in 1..Len(db.player_team_scores) :
        /\ db.player_team_scores[i].player_id = player_id
        /\ db.player_team_scores[i].session_id = session_id})

\* the id of the stint of (player, session, team), or 0
StintId(db, player_id, session_id, team_id) ==
    LET S == {i \in 1..Len(db.player_team_scores) :
                /\ db.player_team_scores[i].player_id = player_id
                /\ db.player_team_scores[i].session_id = session_id
                /\ db.player_team_scores[i].team_id = team_id}
    IN IF S = {} THEN 0 ELSE CHOOSE i \in S : \A j \in S : i <= j

\* final_score - initial_score AS score_earned
ScoreEarned(db, stint) ==
    db.player_team_scores[stint].final_score
        - db.player_team_scores[stint].initial_score

RECURSIVE SumEarned(_, _)
SumEarned(db, stints) ==
    IF stints = <<>> THEN 0
    ELSE ScoreEarned(db, Head(stints)) + SumEarned(db, Tail(stints))

\* faulty variant: the raw current score whether or not a stint exists
total_session_score_RawScore(db, player_id, session_id) ==
    db.player_records[player_id].current_score

\* lines 273-286: the session score of a player record
total_session_score(db, player_id, session_id) ==
    LET team_scores == PlayerStints(db, player_id, session_id)
    IN IF team_scores # <<>>
       THEN SumEarned(db, team_scores)
       ELSE db.player_records[player_id].current_score

\* faulty variant: the playtime runs to the end time of the session
playtime_seconds_ToEndTime(db, player_id) ==
    (db.game_sessions[db.player_records[player_id].session_id].end_time
        - db.player_records[player_id].first_seen) * SECONDS_PER_MINUTE

\* lines 242-245
playtime_seconds(db, player_id) ==
    (db.player_records[player_id].last_seen
        - db.player_records[player_id].first_seen) * SECONDS_PER_MINUTE

\* the id of the player_stats row of a steam id, or 0
StatsId(db, steam_id) ==
    LET S == {i \in 1..Len(db.player_stats) :
                db.player_stats[i].steam_id = steam_id}
    IN IF S = {} THEN 0 ELSE CHOOSE i \in S : TRUE

\* lines 288-307: the stint of the player's current team is brought to the
\* current score, or created with initial_score 0
CloseCurrentStint(db, player_id, session_id) ==
    LET p == db.player_records[player_id]
        sid == StintId(db, player_id, session_id, p.team_id)
    IN IF p.team_id = None THEN db
       ELSE IF sid # 0
       THEN [db EXCEPT !.player_team_scores[sid].final_score = p.current_score]
       ELSE [db EXCEPT !.player_team_scores =
                Append(@, [player_id |-> player_id,
                           session_id |-> session_id,
                           team_id |-> p.team_id,
                           initial_score |-> 0,
                           final_score |-> p.current_score])]

\* lines 309-328: the upsert of player_stats
UpsertPlayerStats(db, steam_id, score, playtime) ==
    LET id == StatsId(db, steam_id)
    IN IF id # 0
       THEN [db EXCEPT
               !.player_stats[id].total_score = @ + score,
               !.player_stats[id].total_playtime_seconds = @ + playtime,
               !.player_stats[id].session_count = @ + 1]
       ELSE [db EXCEPT !.player_stats =
                Append(@, [steam_id |-> steam_id,
                           total_score |-> score,
                           total_playtime_seconds |-> playtime,
                           session_count |-> 1])]

\* lines 359-397: one player_team_stats upsert per stint, the playtime split
\* evenly (n: the number of stints)
RECURSIVE UpsertTeamStats(_, _, _, _, _)
UpsertTeamStats(db, stats_id, stints, playtime, n) ==
    IF stints = <<>> THEN db
    ELSE LET ts == db.player_team_scores[Head(stints)]
             earned == ScoreEarned(db, Head(stints))
             team_playtime == playtime \div n
             S == {i \in 1..Len(db.player_team_stats) :
                     /\ db.player_team_stats[i].player_stats_id = stats_id
                     /\ db.player_team_stats[i].team_id = ts.team_id}
             next ==
                 IF S # {}
                 THEN LET id == CHOOSE i \in S : TRUE
                      IN [db EXCEPT
                            !.player_team_stats[id].score = @ + earned,
                            !.player_team_stats[id].playtime_seconds =
                                @ + team_playtime]
                 ELSE [db EXCEPT !.player_team_stats =
                          Append(@, [player_stats_id |-> stats_id,
                                     team_id |-> ts.team_id,
                                     score |-> earned,
                                     playtime_seconds |-> team_playtime])]
         IN UpsertTeamStats(next, stats_id, Tail(stints), playtime, n)

\* lines 359-362: the playtime is split over the stints of the player
SplitTeamStats(db, stats_id, stints, playtime) ==
    UpsertTeamStats(db, stats_id, stints, playtime, Len(stints))

\* lines 330-397: the per-team part of the fold, on the database that holds
\* the player_stats row of the player
FoldTeams(db, player_id, session_id, steam_id, playtime) ==
    SplitTeamStats(db, StatsId(db, steam_id),
                   PlayerStints(db, player_id, session_id), playtime)

\* lines 233-412: the fold of one player record
FoldPlayer(db, player_id, session_id) ==
    FoldTeams(UpsertPlayerStats(CloseCurrentStint(db, player_id, session_id),
                                db.player_records[player_id].steam_id,
                                total_session_score(db, player_id, session_id),
                                playtime_seconds(db, player_id)),
              player_id, session_id, db.player_records[player_id].steam_id,
              playtime_seconds(db, player_id))

RECURSIVE FoldPlayers(_, _, _)
FoldPlayers(db, players, session_id) ==
    IF players = <<>> THEN db
    ELSE FoldPlayers(FoldPlayer(db, Head(players), session_id),
                     Tail(players), session_id)

update_player_playtimes(db, session_id, end_time) ==
    IF ~Truthy(session_id) THEN db
    ELSE LET players ==
                 SetToSortedSeq({i \in 1..Len(db.player_records) :
                     /\ db.player_records[i].session_id = session_id
                     /\ db.player_records[i].is_bot = 0})
         IN FoldPlayers(db, players, session_id)

(***************************************************************************)
(* player_manager.update_death_statistics                                  *)
(***************************************************************************)
\* lines 425-430 and 510-515: the team-change events of the session with the
\* given flag set whose player record is not a bot, in id order
SessionEvents(db, session_id, flag) ==
    SetToSortedSeq({i \in 1..Len(db.player_team_changes) :
        LET e == db.player_team_changes[i]
        IN /\ e.session_id = session_id
           /\ (IF flag = "death" THEN e.is_death ELSE e.is_redeem) = 1
           /\ db.player_records[e.player_id].is_bot = 0})

\* lines 468-498
RECURSIVE FoldDeaths(_, _)
FoldDeaths(db, deaths) ==
    IF deaths = <<>> THEN db
    ELSE LET e == db.player_team_changes[Head(deaths)]
             steam_id == db.player_records[e.player_id].steam_id
             wave_number == OrZero(e.wave_number)
             S == {i \in 1..Len(db.player_death_stats) :
                     db.player_death_stats[i].steam_id = steam_id}
             next ==
                 IF S # {}
                 THEN LET id == CHOOSE i \in S : TRUE
                      IN [db EXCEPT
                            !.player_death_stats[id].total_deaths = @ + 1,
                            !.player_death_stats[id].waves_survived =
                                @ + wave_number]
                 ELSE [db EXCEPT !.player_death_stats =
                          Append(@, [steam_id |-> steam_id,
                                     total_deaths |-> 1,
                                     waves_survived |-> wave_number])]
         IN FoldDeaths(next, Tail(deaths))

\* lines 551-579
RECURSIVE FoldRedeems(_, _)
FoldRedeems(db, redeems) ==
    IF redeems = <<>> THEN db
    ELSE LET e == db.player_team_changes[Head(redeems)]
             steam_id == db.player_records[e.player_id].steam_id
             S == {i \in 1..Len(db.player_redeem_stats) :
                     db.player_redeem_stats[i].steam_id = steam_id}
             next ==
                 IF S # {}
                 THEN LET id == CHOOSE i \in S : TRUE
                      IN [db EXCEPT
                            !.player_redeem_stats[id].total_redeems = @ + 1]
                 ELSE [db EXCEPT !.player_redeem_stats =
                          Append(@, [steam_id |-> steam_id,
                                     total_redeems |-> 1])]
         IN FoldRedeems(next, Tail(redeems))

\* faulty variant: the events of the session are not folded
update_death_statistics_Skipped(db, session_id) == db

update_death_statistics(db, session_id) ==
    IF ~Truthy(session_id) THEN db
    ELSE LET db1 == FoldDeaths(db, SessionEvents(db, session_id, "death"))
         IN FoldRedeems(db1, SessionEvents(db1, session_id, "redeem"))

(***************************************************************************)
(* player_manager.log_player_team_change                                   *)
(***************************************************************************)
\* faulty variant: every departure from team 4 is a death
is_death_AnyDeparture(old_team_id, new_team_id) ==
    IF old_team_id = 4 /\ new_team_id # 4 THEN 1 ELSE 0

\* lines 148-156: the classification of a team change
is_death(old_team_id, new_team_id) ==
    IF old_team_id = 4 /\ (new_team_id = 3 \/ new_team_id = 1002)
    THEN 1 ELSE 0

is_redeem(old_team_id, new_team_id) ==
    IF is_death(old_team_id, new_team_id) = 1 THEN 0
    ELSE IF old_team_id = 3 /\ new_team_id = 4 THEN 1 ELSE 0

log_player_team_change(db, session_id, player_id, old_team_id, new_team_id, timestamp, current_score) ==
    IF ~Truthy(session_id) THEN db
    ELSE LET wave_number ==
                 IF session_id \in 1..Len(db.game_sessions)
                 THEN db.game_sessions[session_id].wave_number
                 ELSE None
         IN [db EXCEPT !.player_team_changes =
                Append(@, [player_id |-> player_id,
                           session_id |-> session_id,
                           old_team_id |-> old_team_id,
                           new_team_id |-> new_team_id,
                           timestamp |-> timestamp,
                           wave_number |-> wave_number,
                           is_death |-> is_death(old_team_id, new_team_id),
                           is_redeem |-> is_redeem(old_team_id, new_team_id),
                           score_at_change |-> current_score])]

(***************************************************************************)
(* player_manager.update_player_record                                     *)
(***************************************************************************)
\* the columns of the row fetched at lines 13-19; a sqlite3.Row raises
\* IndexError for any other key
PlayerRowColumns ==
    {"id", "initial_score", "highest_score", "current_score", "team_id"}

\* the id of the player record of (session, steam id), or 0
PlayerId(db, session_id, steam_id) ==
    LET S == {i \in 1..Len(db.player_records) :
                /\ db.player_records[i].session_id = session_id
                /\ db.player_records[i].steam_id = steam_id}
    IN IF S = {} THEN 0 ELSE CHOOSE i \in S : TRUE

NewStint(player_id, session_id, team_id, initial_score, final_score) ==
    [player_id |-> player_id, session_id |-> session_id, team_id |-> team_id,
     initial_score |-> initial_score, final_score |-> final_score]

\* faulty variant: a snapshot without a team is rejected, and the score of
\* the others is not written
RefreshRecord_RejectsAbsentTeam(db, session_id, player_id, team_id, score, timestamp) ==
    IF team_id = None THEN db
    ELSE [db EXCEPT !.player_records[player_id].last_seen = timestamp,
                    !.player_records[player_id].team_id = team_id]

\* lines 61-101: the refresh of the record and of the current team's stint
RefreshRecord(db, session_id, player_id, team_id, score, timestamp) ==
    LET p == db.player_records[player_id]
    IN IF score # p.current_score
       THEN LET db1 == [db EXCEPT
                          !.player_records[player_id].current_score = score,
                          !.player_records[player_id].highest_score =
                              Max(p.highest_score, score),
                          !.player_records[player_id].last_seen = timestamp,
                          !.player_records[player_id].team_id = team_id]
                sid == StintId(db1, player_id, session_id, team_id)
            IN IF team_id = None THEN db1
               ELSE IF sid # 0
               THEN [db1 EXCEPT !.player_team_scores[sid].final_score = score]
               ELSE [db1 EXCEPT !.player_team_scores =
                        Append(@, NewStint(player_id, session_id, team_id,
                                           score, score))]
       ELSE [db EXCEPT
               !.player_records[player_id].last_seen = timestamp,
               !.player_records[player_id].team_id = team_id]

\* faulty variant: the stint of the new team is inserted without OR IGNORE
\* and without a uniqueness constraint
TeamChange_AlwaysInserts(db, session_id, player_id, team_id, score, timestamp) ==
    LET p == db.player_records[player_id]
        sid == StintId(db, player_id, session_id, p.team_id)
    IN IF sid = 0 /\ "first_seen" \notin PlayerRowColumns
       THEN [ok |-> FALSE, db |-> db]
       ELSE LET db1 ==
                    [db EXCEPT !.player_team_scores[sid].final_score =
                                   p.current_score]
                db2 == log_player_team_change(db1, session_id, player_id,
                                              p.team_id, team_id, timestamp,
                                              p.current_score)
            IN [ok |-> TRUE,
                db |-> [db2 EXCEPT !.player_team_scores =
                           Append(@, NewStint(player_id, session_id,
                                              team_id, score, score))]]

\* lines 27-59: the team change of an existing player.  ok is FALSE when
\* the statement of line 46 raises (first_seen is not a fetched column) and
\* the function leaves through its except branch with nothing written.
TeamChange(db, session_id, player_id, team_id, score, timestamp) ==
    LET p == db.player_records[player_id]
        sid == StintId(db, player_id, session_id, p.team_id)
    IN IF sid = 0 /\ "first_seen" \notin PlayerRowColumns
       THEN [ok |-> FALSE, db |-> db]
       ELSE LET db1 ==
                    IF sid # 0
                    THEN [db EXCEPT !.player_team_scores[sid].final_score =
                                        p.current_score]
                    ELSE [db EXCEPT !.player_team_scores =
                             Append(@, NewStint(player_id, session_id,
                                                p.team_id, p.initial_score,
                                                p.current_score))]
                db2 == log_player_team_change(db1, session_id, player_id,
                                              p.team_id, team_id, timestamp,
                                              p.current_score)
                \* INSERT OR IGNORE
                db3 == IF StintId(db2, player_id, session_id, team_id) # 0
                       THEN db2
                       ELSE [db2 EXCEPT !.player_team_scores =
                                Append(@, NewStint(player_id, session_id,
                                                   team_id, score, score))]
            IN [ok |-> TRUE, db |-> db3]

\* lines 61-101 after a team change; db is the database on entry, which the
\* rollback of the except branch restores
RefreshAfterChange(tc, db, session_id, player_id, team_id, score, timestamp) ==
    IF tc.ok
    THEN RefreshRecord(tc.db, session_id, player_id, team_id, score, timestamp)
    ELSE db

update_player_record(db, session_id, steam_id, team_id, score, is_bot, timestamp) ==
    IF ~Truthy(session_id) THEN db
    ELSE LET player_id == PlayerId(db, session_id, steam_id)
         IN IF player_id # 0
            THEN LET previous_team_id == db.player_records[player_id].team_id
                 IN IF /\ previous_team_id # team_id
                       /\ previous_team_id # None
                       /\ team_id # None
                    THEN RefreshAfterChange(
                             TeamChange(db, session_id, player_id, team_id,
                                        score, timestamp),
                             db, session_id, player_id, team_id, score,
                             timestamp)
                    ELSE RefreshRecord(db, session_id, player_id, team_id,
                                       score, timestamp)
            ELSE LET new_id == Len(db.player_records) + 1
                     db1 == [db EXCEPT !.player_records =
                                Append(@, [session_id |-> session_id,
                                           steam_id |-> steam_id,
                                           team_id |-> team_id,
                                           current_score |-> score,
                                           initial_score |-> score,
                                           highest_score |-> score,
                                           first_seen |-> timestamp,
                                           last_seen |-> timestamp,
                                           is_bot |-> is_bot])]
                 IN IF team_id = None THEN db1
                    ELSE [db1 EXCEPT !.player_team_scores =
                             Append(@, NewStint(new_id, session_id, team_id,
                                                score, score))]

(***************************************************************************)
(* status_manager.save_server_status                                       *)
(***************************************************************************)
save_server_status(db, session_id, player_count, wave, timestamp) ==
    IF ~Truthy(session_id) THEN db
    ELSE [db EXCEPT !.server_status =
             Append(@, [session_id |-> session_id,
                        timestamp |-> timestamp,
                        player_count |-> player_count,
                        wave_text |-> wave,
                        wave_number |-> utils_extract_wave_number(wave)])]

(***************************************************************************)
(* session_manager.get_active_session                                      *)
(***************************************************************************)
\* team_data.get(k, 0)
TeamGet(team_data, k) == IF k \in DOMAIN team_data THEN team_data[k] ELSE 0

\* lines 171-178 and 206-213: SELECT ... WHERE server_id = ? [AND map_name
\* = ?] AND is_active = 1 ORDER BY start_time DESC LIMIT 1 (the id, or 0)
LatestOf(db, S) ==
    IF S = {} THEN 0
    ELSE CHOOSE i \in S : \A j \in S :
            \/ db.game_sessions[i].start_time > db.game_sessions[j].start_time
            \/ /\ db.game_sessions[i].start_time
                      = db.game_sessions[j].start_time
               /\ i <= j

ActiveSessionOfServer(db, server_id) ==
    LatestOf(db, {i \in 1..Len(db.game_sessions) :
                    /\ db.game_sessions[i].server_id = server_id
                    /\ db.game_sessions[i].is_active = 1})

ActiveSessionOnMap(db, server_id, map_name) ==
    LatestOf(db, {i \in 1..Len(db.game_sessions) :
                    /\ db.game_sessions[i].server_id = server_id
                    /\ db.game_sessions[i].map_name = map_name
                    /\ db.game_sessions[i].is_active = 1})

\* faulty variant: the UPDATE forgets is_active = 0
CloseWithResult_LeavesActive(db, session_id, now, session_result) ==
    [db EXCEPT !.game_sessions[session_id].end_time = now,
               !.game_sessions[session_id].session_result = session_result]

\* UPDATE game_sessions SET is_active = 0, end_time = ?, session_result = ?
CloseWithResult(db, session_id, now, session_result) ==
    [db EXCEPT !.game_sessions[session_id].is_active = 0,
               !.game_sessions[session_id].end_time = now,
               !.game_sessions[session_id].session_result = session_result]

\* faulty variant: the closing UPDATE writes the computed result without the
\* " - Map Changed" suffix
MapChanged_NoSuffix(db, old_session_id, now) ==
    LET previous_wave_number == db.game_sessions[old_session_id].wave_number
        session_result ==
            determine_session_result(db, old_session_id, previous_wave_number)
        db1 == CloseWithResult(db, old_session_id, now, session_result)
        db2 == save_wave_end_snapshot(db1, old_session_id,
                                      OrZero(previous_wave_number),
                                      "Map Changed", now)
        db3 == update_player_playtimes(db2, old_session_id, now)
        db4 == update_death_statistics(db3, old_session_id)
    IN [db |-> db4, new_session_needed |-> TRUE, session_id |-> None]

\* lines 180-204: the active session is on another map
MapChanged(db, old_session_id, now) ==
    LET previous_wave_number == db.game_sessions[old_session_id].wave_number
        session_result ==
            determine_session_result(db, old_session_id, previous_wave_number)
        db1 == CloseWithResult(db, old_session_id, now,
                               session_result \o " - Map Changed")
        db2 == save_wave_end_snapshot(db1, old_session_id,
                                      OrZero(previous_wave_number),
                                      "Map Changed", now)
        db3 == update_player_playtimes(db2, old_session_id, now)
        db4 == update_death_statistics(db3, old_session_id)
    IN [db |-> db4, new_session_needed |-> TRUE, session_id |-> None]

\* lines 226-231: SELECT COUNT(*) FROM server_status WHERE session_id = ?
\* AND wave_number = ?
same_wave_count(db, session_id, wave_number) ==
    Cardinality({i \in 1..Len(db.server_status) :
                    /\ db.server_status[i].session_id = session_id
                    /\ db.server_status[i].wave_number = wave_number})

\* faulty variant: the test forgets "or current_wave_number == 1"
IsRoundRestart_CountOnly(db, session_id, current_wave_number) ==
    same_wave_count(db, session_id, current_wave_number) > 0

\* faulty variant: every wave regression is taken for a round restart
IsRoundRestart_AnyRegression(db, session_id, current_wave_number) ==
    same_wave_count(db, session_id, current_wave_number) >= 0

\* line 233
IsRoundRestart(db, session_id, current_wave_number) ==
    same_wave_count(db, session_id, current_wave_number) > 0
        \/ current_wave_number = 1

\* lines 234-253
RoundRestarted(db, session_id, now) ==
    LET previous_wave_number == db.game_sessions[session_id].wave_number
        session_result ==
            determine_session_result(db, session_id, previous_wave_number)
        db1 == CloseWithResult(db, session_id, now,
                               session_result \o " - Round Restarted")
        db2 == save_wave_end_snapshot(db1, session_id, previous_wave_number,
                                      "Round Restarted", now)
        db3 == update_player_playtimes(db2, session_id, now)
        db4 == update_death_statistics(db3, session_id)
    IN [db |-> db4, new_session_needed |-> TRUE, session_id |-> session_id]

\* faulty variant: the snapshot is saved also for a stored wave 0
WaveProgressed_AlwaysSaves(db, session_id, now) ==
    [db |-> save_wave_end_snapshot(db, session_id,
                db.game_sessions[session_id].wave_number, "Wave Completed",
                now),
     new_session_needed |-> FALSE, session_id |-> session_id]

\* lines 257-268
WaveProgressed(db, session_id, now) ==
    LET previous_wave_number == db.game_sessions[session_id].wave_number
        db1 == IF previous_wave_number > 0
               THEN save_wave_end_snapshot(db, session_id,
                        previous_wave_number, "Wave Completed", now)
               ELSE db
    IN [db |-> db1, new_session_needed |-> FALSE, session_id |-> session_id]

\* lines 272-278: the timestamp of the latest server_status row of the
\* session with player_count > 0, or None
last_active(db, session_id) ==
    LET S == {i \in 1..Len(db.server_status) :
                /\ db.server_status[i].session_id = session_id
                /\ db.server_status[i].player_count > 0}
    IN IF S = {} THEN None
       ELSE LET i == CHOOSE x \in S : \A y \in S :
                        db.server_status[x].timestamp
                            >= db.server_status[y].timestamp
            IN db.server_status[i].timestamp

\* faulty variant: >= instead of >
TimedOut_AtLeast(now, last_active_time) ==
    (now - last_active_time) >= SESSION_TIMEOUT_MINUTES

\* line 284
TimedOut(now, last_active_time) ==
    (now - last_active_time) > SESSION_TIMEOUT_MINUTES

\* faulty variant: the timeout closes the session and asks for no new one
TimeoutCheck_NoNewSession(db, session_id, now) ==
    LET previous_wave_number == db.game_sessions[session_id].wave_number
        last_active_time == last_active(db, session_id)
    IN IF last_active_time # None /\ TimedOut(now, last_active_time)
       THEN LET db1 == CloseWithResult(db, session_id, now, "Loss - Timeout")
                db2 == save_wave_end_snapshot(db1, session_id,
                           OrZero(previous_wave_number), "Timeout", now)
            IN [db |-> db2, new_session_needed |-> FALSE,
                session_id |-> session_id]
       ELSE [db |-> db, new_session_needed |-> FALSE,
             session_id |-> session_id]

\* lines 272-304
TimeoutCheck(db, session_id, now) ==
    LET previous_wave_number == db.game_sessions[session_id].wave_number
        last_active_time == last_active(db, session_id)
    IN IF last_active_time # None /\ TimedOut(now, last_active_time)
       THEN LET db1 == CloseWithResult(db, session_id, now, "Loss - Timeout")
                db2 == save_wave_end_snapshot(db1, session_id,
                           OrZero(previous_wave_number), "Timeout", now)
            IN [db |-> db2, new_session_needed |-> TRUE,
                session_id |-> session_id]
       ELSE [db |-> db, new_session_needed |-> FALSE,
             session_id |-> session_id]

\* lines 217-304: an active session of the server exists on the map
SameMap(db, session_id, current_wave_number, now) ==
    LET session == db.game_sessions[session_id]
        previous_wave_number == session.wave_number
    IN IF session.end_time # None
       THEN [db |-> db, new_session_needed |-> TRUE,
             session_id |-> session_id]
       ELSE IF current_wave_number # None /\ previous_wave_number # None
       THEN IF current_wave_number < previous_wave_number
            THEN IF IsRoundRestart(db, session_id, current_wave_number)
                 THEN RoundRestarted(db, session_id, now)
                 ELSE [db |-> db, new_session_needed |-> FALSE,
                       session_id |-> session_id]
            ELSE IF current_wave_number > previous_wave_number
            THEN WaveProgressed(db, session_id, now)
            ELSE [db |-> db, new_session_needed |-> FALSE,
                  session_id |-> session_id]
       ELSE TimeoutCheck(db, session_id, now)

\* lines 180-304: the boundary decision
Decide(db, server_id, map_name, current_wave_number, now) ==
    LET active_server_session == ActiveSessionOfServer(db, server_id)
    IN IF /\ active_server_session # 0
          /\ db.game_sessions[active_server_session].map_name # map_name
       THEN MapChanged(db, active_server_session, now)
       ELSE LET session == ActiveSessionOnMap(db, server_id, map_name)
            IN IF session = 0
               THEN [db |-> db, new_session_needed |-> TRUE,
                     session_id |-> None]
               ELSE SameMap(db, session, current_wave_number, now)

\* faulty variant: the second UPDATE resets the result of the session
CloseReplaced_ResetsResult(db, session_id, now) ==
    IF ~Truthy(session_id) THEN db
    ELSE LET db1 == [db EXCEPT !.game_sessions[session_id].is_active = 0,
                               !.game_sessions[session_id].end_time = now,
                               !.game_sessions[session_id].session_result =
                                   NullText]
             db2 == update_player_playtimes(db1, session_id, now)
         IN update_death_statistics(db2, session_id)

\* lines 307-320: the session that is being replaced is closed and folded
CloseReplaced(db, session_id, now) ==
    IF ~Truthy(session_id) THEN db
    ELSE LET db1 == [db EXCEPT !.game_sessions[session_id].is_active = 0,
                               !.game_sessions[session_id].end_time = now]
             db2 == update_player_playtimes(db1, session_id, now)
         IN update_death_statistics(db2, session_id)

\* faulty variant: the two columns take the counts of teams 1 and 2
CreateSession_TeamsOneTwo(db, server_id, map_name, current_wave, player_count, team_data, now) ==
    [db |-> [db EXCEPT !.game_sessions =
                Append(@, [server_id |-> server_id,
                           map_name |-> map_name,
                           start_time |-> now,
                           end_time |-> None,
                           peak_player_count |-> player_count,
                           wave_text |-> current_wave,
                           wave_number |-> extract_wave_number(current_wave),
                           is_active |-> 1,
                           team1_player_count |-> TeamGet(team_data, 1),
                           team2_player_count |-> TeamGet(team_data, 2),
                           session_result |-> NullText])],
     session_id |-> Len(db.game_sessions) + 1]

\* lines 322-344: the INSERT, and session_id = cursor.lastrowid
CreateSession(db, server_id, map_name, current_wave, player_count, team_data, now) ==
    [db |-> [db EXCEPT !.game_sessions =
                Append(@, [server_id |-> server_id,
                           map_name |-> map_name,
                           start_time |-> now,
                           end_time |-> None,
                           peak_player_count |-> player_count,
                           wave_text |-> current_wave,
                           wave_number |-> extract_wave_number(current_wave),
                           is_active |-> 1,
                           team1_player_count |-> TeamGet(team_data, 4),
                           team2_player_count |-> TeamGet(team_data, 3),
                           session_result |-> NullText])],
     session_id |-> Len(db.game_sessions) + 1]

\* faulty variant: the peak is overwritten with the current player count
UpdateSession_PeakIsCurrent(db, session_id, current_wave, player_count, team_data) ==
    LET db1 == [db EXCEPT
                  !.game_sessions[session_id].wave_text = current_wave,
                  !.game_sessions[session_id].wave_number =
                      extract_wave_number(current_wave),
                  !.game_sessions[session_id].peak_player_count =
                      player_count]
    IN IF DOMAIN team_data # {}
       THEN [db1 EXCEPT
               !.game_sessions[session_id].team1_player_count =
                   TeamGet(team_data, 4),
               !.game_sessions[session_id].team2_player_count =
                   TeamGet(team_data, 3)]
       ELSE db1

\* lines 345-365
UpdateSession(db, session_id, current_wave, player_count, team_data) ==
    LET peak_players ==
            Max(db.game_sessions[session_id].peak_player_count, player_count)
        db1 == [db EXCEPT
                  !.game_sessions[session_id].wave_text = current_wave,
                  !.game_sessions[session_id].wave_number =
                      extract_wave_number(current_wave),
                  !.game_sessions[session_id].peak_player_count =
                      peak_players]
    IN IF DOMAIN team_data # {}
       THEN [db1 EXCEPT
               !.game_sessions[session_id].team1_player_count =
                   TeamGet(team_data, 4),
               !.game_sessions[session_id].team2_player_count =
                   TeamGet(team_data, 3)]
       ELSE db1

\* lines 306-365: what follows the boundary decision d
Conclude(d, server_id, map_name, current_wave, player_count, team_data, now) ==
    IF d.new_session_needed
    THEN IF map_name = NullText
         \* the INSERT of lines 336-342 violates map_name TEXT NOT NULL
         \* (database.py 75): lines 370-374 roll it back and return None;
         \* what was committed before it stays
         THEN [db |-> CloseReplaced(d.db, d.session_id, now),
               session_id |-> None]
         ELSE CreateSession(CloseReplaced(d.db, d.session_id, now),
                            server_id, map_name, current_wave, player_count,
                            team_data, now)
    ELSE [db |-> UpdateSession(d.db, d.session_id, current_wave,
                               player_count, team_data),
          session_id |-> d.session_id]

\* the result: the database and the returned session id
get_active_session(db, server_id, map_name, current_wave, player_count, team_data, now) ==
    Conclude(Decide(db, server_id, map_name,
                    extract_wave_number(current_wave), now),
             server_id, map_name, current_wave, player_count, team_data, now)

(***************************************************************************)
(* server_manager.get_or_create_server                                     *)
(***************************************************************************)
ServerId(db, server_code) ==
    LET S == {i \in 1..Len(db.servers) :
                db.servers[i].server_code = server_code}
    IN IF S = {} THEN 0 ELSE CHOOSE i \in S : TRUE

\* the result: the database and the server id
get_or_create_server(db, server_code, now) ==
    LET id == ServerId(db, server_code)
    IN IF id # 0
       THEN [db |-> [db EXCEPT !.servers[id].last_seen = now],
             server_id |-> id]
       ELSE [db |-> [db EXCEPT !.servers =
                        Append(@, [server_code |-> server_code,
                                   last_seen |-> now])],
             server_id |-> Len(db.servers) + 1]

(***************************************************************************)
(* server_monitor.ServerMonitor.process_server / process_players           *)
(*                                                                         *)
(* server_data: [Map, ExtraInfo, PlayerCount], one entry of the server     *)
(* list.  details: [ok, PlayerList], the answer of the detail call (ok is  *)
(* FALSE when the call failed or lacks TeamList / PlayerList).  A player:  *)
(* [SteamID64, Name, Team, Frags].                                         *)
(***************************************************************************)
NoDetails == [ok |-> FALSE, PlayerList |-> <<>>]

\* lines 117-132: team_counts
team_counts(PlayerList) ==
    LET teams == {PlayerList[i].Team : i \in 1..Len(PlayerList)}
    IN [t \in {x \in teams : Truthy(x)} |->
            Cardinality({i \in 1..Len(PlayerList) : PlayerList[i].Team = t})]

\* lines 155-165: the identity of a player; a bot gets a synthesized one
PlayerIsBot(player) == IF player.SteamID64 = "0" THEN 1 ELSE 0

PlayerSteamId(player) ==
    IF player.SteamID64 = "0"
    THEN "bot_" \o player.Name \o "_" \o ToString(OrZero(player.Team))
    ELSE player.SteamID64

RECURSIVE process_players(_, _, _, _)
process_players(db, session_id, player_list, timestamp) ==
    IF player_list = <<>> THEN db
    ELSE LET player == Head(player_list)
         IN process_players(
                update_player_record(db, session_id, PlayerSteamId(player),
                                     player.Team, player.Frags,
                                     PlayerIsBot(player), timestamp),
                session_id, Tail(player_list), timestamp)

\* lines 111-113: the details are fetched and usable
Fetched(server_data, details) ==
    server_data.PlayerCount >= MIN_PLAYERS_FOR_SESSION /\ details.ok

\* lines 136-147: the status record and the player records of the session
\* that get_active_session returned (gas)
RecordStatus(gas, server_id, server_data, details, timestamp) ==
    [db |-> process_players(
                save_server_status(gas.db, gas.session_id,
                                   server_data.PlayerCount,
                                   server_data.ExtraInfo, timestamp),
                gas.session_id,
                IF Fetched(server_data, details) THEN details.PlayerList
                ELSE <<>>,
                timestamp),
     session_id |-> gas.session_id,
     server_id |-> server_id]

\* lines 111-147, for the server row srv of line 109
ProcessKnownServer(srv, server_data, details, timestamp) ==
    RecordStatus(
        get_active_session(srv.db, srv.server_id, server_data.Map,
                           server_data.ExtraInfo, server_data.PlayerCount,
                           IF Fetched(server_data, details)
                           THEN team_counts(details.PlayerList)
                           ELSE <<>>,
                           timestamp),
        srv.server_id, server_data, details, timestamp)

\* the result: the database and the session id get_active_session returned
process_server(db, server_code, server_data, details, timestamp) ==
    ProcessKnownServer(get_or_create_server(db, server_code, timestamp),
                       server_data, details, timestamp)

(***************************************************************************)
(* The reports of the polling thread: ServerMonitor.report_recent_deaths,  *)
(* redemption_stats.report_recent_redeems and report_recent_deaths.  A     *)
(* report is the sequence of the event ids whose line it logs.             *)
(***************************************************************************)
Reverse(seq) == [i \in 1..Len(seq) |-> seq[Len(seq) + 1 - i]]

\* the active sessions a report goes through: WHERE is_active = 1, and for
\* the deaths AND team1_player_count > 0
ReportSessions(db, with_survivors) ==
    SetToSortedSeq({s \in 1..Len(db.game_sessions) :
        /\ db.game_sessions[s].is_active = 1
        /\ with_survivors => db.game_sessions[s].team1_player_count > 0})

\* the events of a session with the flag set and timestamp > one_minute_ago,
\* ORDER BY timestamp DESC
RecentEvents(db, session_id, flag, now) ==
    Reverse(SetToSortedSeq({i \in 1..Len(db.player_team_changes) :
        /\ db.player_team_changes[i].session_id = session_id
        /\ (IF flag = "death"
            THEN db.player_team_changes[i].is_death
            ELSE db.player_team_changes[i].is_redeem) = 1
        /\ db.player_team_changes[i].timestamp
               > now - REPORT_WINDOW_MINUTES}))

RECURSIVE RecentOfSessions(_, _, _, _)
RecentOfSessions(db, sessions, flag, now) ==
    IF sessions = <<>> THEN <<>>
    ELSE RecentEvents(db, Head(sessions), flag, now)
             \o RecentOfSessions(db, Tail(sessions), flag, now)

\* server_monitor.py lines 202-258: every recent death of every active
\* session with survivors is logged
ServerMonitor_report_recent_deaths(db, now) ==
    RecentOfSessions(db, ReportSessions(db, TRUE), "death", now)

\* redemption_stats.py lines 200-206 and 256-262: the events that are not in
\* the set of reported ids, each added to it when it is logged
RECURSIVE NewOf(_, _)
NewOf(events, reported) ==
    IF events = <<>> THEN <<>>
    ELSE IF Head(events) \in reported
    THEN NewOf(Tail(events), reported)
    ELSE <<Head(events)>>
             \o NewOf(Tail(events), reported \cup {Head(events)})

\* the logged events and the set of reported ids before it is cut back
Reported(logged, reported) ==
    [logged |-> logged,
     ids |-> reported \cup {logged[i] : i \in 1..Len(logged)}]

\* redemption_stats.py lines 169-214
report_recent_redeems(db, reported, now) ==
    Reported(NewOf(RecentOfSessions(db, ReportSessions(db, FALSE), "redeem",
                                    now),
                   reported),
             reported)

\* redemption_stats.py lines 223-268
report_recent_deaths(db, reported, now) ==
    Reported(NewOf(RecentOfSessions(db, ReportSessions(db, TRUE), "death",
                                    now),
                   reported),
             reported)

\* lines 216-217 and 270-271: set(list(ids)[-1000:]).  The order in which a
\* set is listed is not specified, so the ids that are kept are any
\* ReportedIdsLimit of them.
Trimmed(ids) ==
    IF Cardinality(ids) > ReportedIdsLimit
    THEN {S \in SUBSET ids : Cardinality(S) = ReportedIdsLimit}
    ELSE {ids}

\* the lines that a function logs for a sequence of events
Lines(by, kind, events) ==
    [i \in 1..Len(events) |-> [by |-> by, kind |-> kind, id |-> events[i]]]

(***************************************************************************)
(* server_monitor.ServerMonitor.cleanup_previous_sessions                  *)
(***************************************************************************)
\* get_db_connection sets conn.row_factory = sqlite3.Row, and a sqlite3.Row
\* has no method get: session.get('wave_number') raises AttributeError
RowHasGet == FALSE

\* lines 312-330: one session of the loop
CleanupSession(db, session_id, now) ==
    LET wave_number == OrZero(db.game_sessions[session_id].wave_number)
        db1 == CloseWithResult(db, session_id, now,
                               "Incomplete - Server Restart")
        db2 == save_wave_end_snapshot(db1, session_id, wave_number,
                                      "Server Restart", now)
        db3 == update_player_playtimes(db2, session_id, now)
    IN update_death_statistics(db3, session_id)

RECURSIVE CleanupSessions(_, _, _)
CleanupSessions(db, active_sessions, now) ==
    IF active_sessions = <<>> THEN db
    ELSE CleanupSessions(CleanupSession(db, Head(active_sessions), now),
                         Tail(active_sessions), now)

\* faulty variant: the SELECT forgets WHERE is_active = 1, and the rows
\* answer get
cleanup_previous_sessions_EverySession(db, now) ==
    CleanupSessions(db, SetToSortedSeq(1..Len(db.game_sessions)), now)

\* lines 297-335.  The first statement of the loop body (line 313) raises
\* before anything is written; the except branch of line 331 ends the
\* function.
cleanup_previous_sessions(db, now) ==
    LET active_sessions ==
            SetToSortedSeq({i \in 1..Len(db.game_sessions) :
                                db.game_sessions[i].is_active = 1})
    IN IF active_sessions # <<>> /\ ~RowHasGet
       THEN db
       ELSE CleanupSessions(db, active_sessions, now)

(***************************************************************************)
(* The inputs of the model.                                                *)
(***************************************************************************)
ServerCodes == {"alpha", "beta"}

Maps == {"Farm", "City"}

Text_Wave0 == <<"W", "a", "v", "e", " ", "0">>
Text_Wave1 == <<"W", "a", "v", "e", " ", "1">>
Text_W2 == <<"W", "2">>
Text_Wave2 == <<"W", "a", "v", "e", " ", "2">>
Text_wave6 == <<"w", "a", "v", "e", " ", "6">>

\* wave indicators; <<>> is an absent one
WaveTexts == { <<>>, Text_Wave1, Text_W2 }

AllWaveTexts == { <<>>, Text_Wave0, Text_Wave1, Text_W2, Text_wave6 }

\* minutes between two tasks
Deltas == {15, 16}

Human(steam_id, team, frags) ==
    [SteamID64 |-> steam_id, Name |-> steam_id, Team |-> team,
     Frags |-> frags]

Bot(name, team, frags) ==
    [SteamID64 |-> "0", Name |-> name, Team |-> team, Frags |-> frags]

\* what a poll reports of a server's players: the count of the server list
\* and the answer of the detail call
PollEmpty == [PlayerCount |-> 0, details |-> NoDetails]

PollOne ==
    [PlayerCount |-> 1,
     details |-> [ok |-> TRUE, PlayerList |-> <<Human("p1", 4, 0)>>]]

PollTwo ==
    [PlayerCount |-> 2,
     details |-> [ok |-> TRUE,
                  PlayerList |-> <<Human("p1", 4, 10), Bot("z", 3, 5)>>]]

\* the polls of a server with the two human players p1 and p2: in cycle n,
\* from the third cycle on, the player named by dead is on team 3
PollScenario(n, dead, frags) ==
    [PlayerCount |-> 2,
     details |->
        [ok |-> TRUE,
         PlayerList |->
            <<Human("p1", IF n >= 3 /\ dead = "p1" THEN 3 ELSE 4, frags),
              Human("p2", IF n >= 3 /\ dead = "p2" THEN 3 ELSE 4, 5)>>]]

\* three human players who are on team 3 or on team 4 together, and a bot
\* on team 1
PollSquad(team) ==
    [PlayerCount |-> 4,
     details |-> [ok |-> TRUE,
                  PlayerList |-> <<Human("p1", team, 0), Human("p2", team, 0),
                                   Human("p3", team, 0), Bot("z", 1, 0)>>]]

\* redemption_stats.get_team_name: the known team ids
TeamIds == {1, 2, 3, 4, 1002}

\* the teams and scores a poll reports of the human player p1; a second
\* human, p2, is on the server or has left
PlayerTeams == {None, 3, 4}

PlayerFrags == {0, 10}

PollPlayers(team, frags, with_p2) ==
    [PlayerCount |-> IF with_p2 THEN 2 ELSE 1,
     details |-> [ok |-> TRUE,
                  PlayerList |-> <<Human("p1", team, frags)>>
                      \o (IF with_p2 THEN <<Human("p2", 4, 5)>> ELSE <<>>)]]

(***************************************************************************)
(* The monitor: ServerMonitor.start, a stop of the process, one per-server *)
(* task of a polling cycle, and a direct call of the snapshotter.          *)
(***************************************************************************)
\* a task of the queue: (self.process_server, (server_code, server_data,
\* timestamp)), with the number of the cycle that put it
NoTask == [server_code |-> "", cycle |-> 0]

WorkerIds == 1..Workers

\* the polling thread before its first cycle
MonitorAtStart == [pc |-> "wait", cycle |-> 0, servers |-> {}]

NoOp == [op |-> "none", server_id |-> 0, map_name |-> "",
         current_wave |-> <<>>, player_count |-> 0, session_id |-> None,
         active_before |-> 0, wave_before |-> None, wave_number |-> None,
         reason |-> "", repeat |-> FALSE, players |-> <<>>, result |-> ""]

Init ==
    /\ servers = <<>>
    /\ game_sessions = <<>>
    /\ server_status = <<>>
    /\ wave_end_records = <<>>
    /\ player_wave_scores = <<>>
    /\ player_records = <<>>
    /\ player_team_scores = <<>>
    /\ player_team_changes = <<>>
    /\ player_stats = <<>>
    /\ player_team_stats = <<>>
    /\ player_death_stats = <<>>
    /\ player_redeem_stats = <<>>
    /\ clock = 0
    /\ phase = "stopped"
    /\ cycles = 0
    /\ calls = 0
    /\ last = NoOp
    /\ reports = <<>>
    /\ reported_death_ids = {}
    /\ reported_redeem_ids = {}
    /\ task_queue = <<>>
    /\ unfinished_tasks = 0
    /\ workers = [w \in WorkerIds |-> NoTask]
    /\ monitor = MonitorAtStart
    /\ exited = {}

\* lines 337-355: init_database, cleanup_previous_sessions, and only then
\* the workers and the polling driver are started
Start ==
    /\ phase = "stopped"
    /\ Store(cleanup_previous_sessions(DB, clock))
    /\ phase' = "running"
    \* repeat: the second start-up in a row with no task in between
    /\ last' = [NoOp EXCEPT !.op = "start",
                            !.repeat = (last.op = "stop" /\ last.repeat)]
    \* a new process: the module globals and the queue are new, the log
    \* files stay
    /\ reported_death_ids' = {}
    /\ reported_redeem_ids' = {}
    /\ task_queue' = <<>>
    /\ unfinished_tasks' = 0
    /\ workers' = [w \in WorkerIds |-> NoTask]
    /\ monitor' = MonitorAtStart
    /\ exited' = {}
    /\ UNCHANGED <<clock, cycles, calls, reports>>

\* the process ends (stop, or a crash); the database file stays
Stop ==
    /\ phase = "running"
    /\ cycles < MaxCycles
    /\ phase' = "stopped"
    \* repeat: the process ends before any task has followed its start-up
    /\ last' = [NoOp EXCEPT !.op = "stop", !.repeat = (last.op = "start")]
    /\ UNCHANGED <<tables, clock, cycles, calls, reporter, pool>>

\* one task of a polling cycle (worker: func(*args) with func =
\* process_server), delta minutes after the previous one
RunTask(server_code, map_name, current_wave, poll, delta) ==
    /\ phase # "stopped"
    /\ \E r \in {process_server(DB, server_code,
                                [Map |-> map_name,
                                 ExtraInfo |-> current_wave,
                                 PlayerCount |-> poll.PlayerCount],
                                poll.details, clock + delta)} :
          /\ Store(r.db)
          /\ last' = [op |-> "process_server",
                      server_id |-> r.server_id,
                      map_name |-> map_name,
                      current_wave |-> current_wave,
                      player_count |-> poll.PlayerCount,
                      session_id |-> r.session_id,
                      active_before |->
                          ActiveSessionOfServer(DB, r.server_id),
                      wave_before |->
                          IF ActiveSessionOfServer(DB, r.server_id) = 0
                          THEN None
                          ELSE game_sessions[ActiveSessionOfServer(DB,
                                   r.server_id)].wave_number,
                      wave_number |-> None,
                      reason |-> "",
                      repeat |-> FALSE,
                      \* the player list handed to process_players
                      players |->
                          IF Fetched(poll, poll.details)
                          THEN poll.details.PlayerList
                          ELSE <<>>,
                      result |-> ""]
    /\ clock' = clock + delta
    /\ cycles' = cycles + 1
    /\ UNCHANGED <<phase, calls>>

\* a task of one of the first MaxCycles cycles, the queue left aside
ProcessServer(server_code, map_name, current_wave, poll, delta) ==
    /\ cycles < MaxCycles
    /\ RunTask(server_code, map_name, current_wave, poll, delta)
    /\ UNCHANGED <<reporter, pool>>

\* a call save_wave_end_snapshot(session_id, wave_number, reason)
CallSnapshot(session_id, wave_number, reason) ==
    /\ phase = "running"
    /\ calls < MaxCalls
    /\ Store(save_wave_end_snapshot(DB, session_id, wave_number, reason,
                                    clock))
    /\ last' = [NoOp EXCEPT !.op = "save_wave_end_snapshot",
                            !.session_id = session_id,
                            !.wave_number = wave_number,
                            !.reason = reason,
                            \* the same call as the operation before
                            !.repeat =
                                /\ last.op = "save_wave_end_snapshot"
                                /\ last.session_id = session_id
                                /\ last.wave_number = wave_number
                                /\ last.reason = reason]
    /\ calls' = calls + 1
    /\ UNCHANGED <<clock, phase, cycles, reporter, pool>>

\* a call log_player_team_change(session_id, player_id, player_name,
\* old_team_id, new_team_id, timestamp, current_score) for a player record
\* of a session
CallTeamChange(player_id, old_team_id, new_team_id) ==
    /\ phase = "running"
    /\ calls < MaxCalls
    /\ player_id \in 1..Len(player_records)
    /\ Store(log_player_team_change(DB, player_records[player_id].session_id,
                                    player_id, old_team_id, new_team_id,
                                    clock,
                                    player_records[player_id].current_score))
    /\ last' = [NoOp EXCEPT !.op = "log_player_team_change",
                            !.session_id =
                                player_records[player_id].session_id]
    /\ calls' = calls + 1
    /\ UNCHANGED <<clock, phase, cycles, reporter, pool>>

\* a call determine_session_result(session_id, wave_number); it writes
\* nothing
CallResult(session_id, wave_number) ==
    /\ phase = "running"
    /\ calls < MaxCalls
    /\ last' = [NoOp EXCEPT !.op = "determine_session_result",
                            !.session_id = session_id,
                            !.wave_number = wave_number,
                            !.result =
                                determine_session_result(DB, session_id,
                                                         wave_number)]
    /\ calls' = calls + 1
    /\ UNCHANGED <<tables, clock, phase, cycles, reporter, pool>>

\* monitor_thread, lines 290-291: self.report_recent_deaths() and then
\* report_recent_redeems(), at the time of the clock
ReportCycle ==
    /\ phase = "running"
    /\ calls < MaxReports
    /\ \E r \in {report_recent_redeems(DB, reported_redeem_ids, clock)} :
          /\ reports' = reports
                 \o Lines("ServerMonitor", "death",
                          ServerMonitor_report_recent_deaths(DB, clock))
                 \o Lines("redemption_stats", "redeem", r.logged)
          /\ reported_redeem_ids' \in Trimmed(r.ids)
    /\ last' = [NoOp EXCEPT !.op = "report"]
    /\ calls' = calls + 1
    /\ UNCHANGED <<tables, clock, phase, cycles, reported_death_ids, pool>>

\* a call of redemption_stats.report_recent_deaths()
CallReportDeaths ==
    /\ phase = "running"
    /\ calls < MaxReports
    /\ \E r \in {report_recent_deaths(DB, reported_death_ids, clock)} :
          /\ reports' = reports
                 \o Lines("redemption_stats", "death", r.logged)
          /\ reported_death_ids' \in Trimmed(r.ids)
    /\ last' = [NoOp EXCEPT !.op = "report_recent_deaths"]
    /\ calls' = calls + 1
    /\ UNCHANGED <<tables, clock, phase, cycles, reported_redeem_ids, pool>>

\* faulty variant: every server of the list gets two tasks
TasksOf_Twice(server_codes, cycle) ==
    [i \in 1..(2 * Len(server_codes)) |->
        [server_code |-> server_codes[(i + 1) \div 2], cycle |-> cycle]]

\* the tasks that a cycle puts for the servers of the fetched list
RECURSIVE TasksOf(_, _)
TasksOf(server_codes, cycle) ==
    IF server_codes = <<>> THEN <<>>
    ELSE <<[server_code |-> Head(server_codes), cycle |-> cycle]>>
             \o TasksOf(Tail(server_codes), cycle)

\* process_servers, lines 174-186: the list is fetched and one task is put
\* for every server of it; with an empty list the function returns
Enqueue(server_codes) ==
    /\ phase = "running"
    /\ monitor.pc = "wait"
    /\ monitor.cycle < MaxCycles
    /\ task_queue' = task_queue \o TasksOf(server_codes, monitor.cycle + 1)
    /\ unfinished_tasks' = unfinished_tasks + Len(server_codes)
    /\ monitor' = [pc |-> IF server_codes = <<>> THEN "wait" ELSE "join",
                   cycle |-> monitor.cycle + 1,
                   servers |-> {server_codes[i] :
                                   i \in 1..Len(server_codes)}]
    /\ clock' = clock + 1
    /\ last' = [NoOp EXCEPT !.op = "process_servers"]
    /\ UNCHANGED <<tables, phase, cycles, calls, workers, exited, reporter>>

\* faulty variant: the wait ends when the queue is empty
QueueDrained_EmptyQueue == task_queue = <<>>

\* Queue.join: every task that was put has been marked done
QueueDrained == unfinished_tasks = 0

\* process_servers, lines 187-188: task_queue.join() returns
Join ==
    /\ phase # "stopped"
    /\ monitor.pc = "join"
    /\ QueueDrained
    /\ monitor' = [monitor EXCEPT !.pc = "wait"]
    /\ last' = [NoOp EXCEPT !.op = "join"]
    /\ UNCHANGED <<tables, clock, phase, cycles, calls, task_queue,
                   unfinished_tasks, workers, exited, reporter>>

\* worker, line 277: task_queue.get
WorkerGet(w) ==
    /\ phase # "stopped"
    /\ w \notin exited
    /\ workers[w] = NoTask
    /\ task_queue # <<>>
    /\ workers' = [workers EXCEPT ![w] = Head(task_queue)]
    /\ task_queue' = Tail(task_queue)
    /\ last' = [NoOp EXCEPT !.op = "get"]
    /\ UNCHANGED <<tables, clock, phase, cycles, calls, unfinished_tasks,
                   monitor, exited, reporter>>

\* worker, lines 278-279 and 282-284: func(*args) and task_done(), also
\* when the task raised
WorkerRun(w) ==
    /\ workers[w] # NoTask
    /\ RunTask(workers[w].server_code, "Farm", Text_Wave1, PollOne, 0)
    /\ workers' = [workers EXCEPT ![w] = NoTask]
    /\ unfinished_tasks' = unfinished_tasks - 1
    /\ UNCHANGED <<task_queue, monitor, exited, reporter>>

\* faulty variant: a task that raised is not marked done
WorkerFail_NoTaskDone(w) ==
    /\ workers[w] # NoTask
    /\ phase # "stopped"
    /\ workers' = [workers EXCEPT ![w] = NoTask]
    /\ last' = [NoOp EXCEPT !.op = "process_server_failed"]
    /\ UNCHANGED <<tables, clock, phase, cycles, calls, unfinished_tasks,
                   task_queue, monitor, exited, reporter>>

\* worker, lines 278-284, with a task that fails: get_active_session
\* (step "session": rolled back, None returned, the status and the players
\* skipped), save_server_status (step "status": process_server, lines
\* 148-150, logs and returns) or the player update (step "player":
\* process_players, lines 170-171, logs).  What was committed before the
\* failing step stays, and the task is marked done
WorkerFail(w) ==
    /\ workers[w] # NoTask
    /\ phase # "stopped"
    /\ \E step \in {"session", "status", "player"},
          srv \in {get_or_create_server(DB, workers[w].server_code, clock)} :
          /\ \E gas \in {get_active_session(srv.db, srv.server_id, "Farm",
                                             Text_Wave1, PollOne.PlayerCount,
                                             team_counts(PollOne.details.PlayerList),
                                             clock)} :
                Store(IF step = "session" THEN srv.db
                      ELSE IF step = "status" THEN gas.db
                      ELSE save_server_status(gas.db, gas.session_id,
                                              PollOne.PlayerCount,
                                              Text_Wave1, clock))
          /\ last' = [NoOp EXCEPT !.op = "process_server_failed",
                                  !.server_id = srv.server_id,
                                  !.reason = step]
    /\ workers' = [workers EXCEPT ![w] = NoTask]
    /\ unfinished_tasks' = unfinished_tasks - 1
    /\ cycles' = cycles + 1
    /\ UNCHANGED <<clock, phase, calls, task_queue, monitor, exited,
                   reporter>>

\* stop, lines 357-359: stop_event.set()
SetStop ==
    /\ phase = "running"
    /\ phase' = "stopping"
    /\ last' = [NoOp EXCEPT !.op = "stop_event"]
    /\ UNCHANGED <<tables, clock, cycles, calls, reporter, pool>>

\* worker, line 275: a worker that holds no task finds stop_event set and
\* leaves its loop
WorkerExit(w) ==
    /\ phase = "stopping"
    /\ w \notin exited
    /\ workers[w] = NoTask
    /\ exited' = exited \cup {w}
    /\ last' = [NoOp EXCEPT !.op = "worker_exit"]
    /\ UNCHANGED <<tables, clock, phase, cycles, calls, reporter,
                   task_queue, unfinished_tasks, workers, monitor>>

\* monitor_thread, line 287: the polling thread, back from process_servers,
\* finds stop_event set and leaves its loop
MonitorExit ==
    /\ phase = "stopping"
    /\ monitor.pc = "wait"
    /\ monitor' = [monitor EXCEPT !.pc = "exited"]
    /\ last' = [NoOp EXCEPT !.op = "monitor_exit"]
    /\ UNCHANGED <<tables, clock, phase, cycles, calls, reporter,
                   task_queue, unfinished_tasks, workers, exited>>

\* two servers, two maps, timeouts and restarts of the monitor
Poll ==
    \E server_code \in ServerCodes, map_name \in Maps,
       current_wave \in WaveTexts, poll \in {PollEmpty, PollTwo},
       delta \in Deltas :
        ProcessServer(server_code, map_name, current_wave, poll, delta)

Next == Start \/ Stop \/ Poll

Spec == Init /\ [][Next]_vars

\* one server, every wave indicator
PollWaves ==
    \E map_name \in Maps, current_wave \in AllWaveTexts,
       poll \in {PollEmpty, PollOne, PollTwo} :
        ProcessServer("alpha", map_name, current_wave, poll, 16)

NextWaves == Start \/ PollWaves

SpecWaves == Init /\ [][NextWaves]_vars

\* one server and one map, with direct calls of the snapshotter
PollSnapshot ==
    \E current_wave \in {Text_Wave1, Text_W2}, poll \in {PollOne, PollTwo} :
        ProcessServer("alpha", "Farm", current_wave, poll, 16)

Snapshot ==
    \E session_id \in 0..(Len(game_sessions) + 1), wave_number \in {None, 1},
       reason \in {"Wave Completed", "Timeout"} :
        CallSnapshot(session_id, wave_number, reason)

NextSnapshot == Start \/ PollSnapshot \/ Snapshot

SpecSnapshot == Init /\ [][NextSnapshot]_vars

\* one server in one wave, a minute between its tasks: the players change
\* team and score, leave, and the map changes
PollLedger ==
    \E map_name \in Maps, team \in PlayerTeams, frags \in PlayerFrags,
       with_p2 \in BOOLEAN :
        ProcessServer("alpha", map_name, Text_Wave1,
                      PollPlayers(team, frags, with_p2), 1)

NextLedger == Start \/ PollLedger

SpecLedger == Init /\ [][NextLedger]_vars

\* one server on one map with one player, and direct calls of the
\* team-change log for every pair of known teams
PollTeams ==
    ProcessServer("alpha", "Farm", Text_Wave1, PollPlayers(4, 0, FALSE), 1)

TeamChangeCall ==
    \E player_id \in 1..Len(player_records), old_team_id \in TeamIds,
       new_team_id \in TeamIds :
        CallTeamChange(player_id, old_team_id, new_team_id)

NextTeams == Start \/ PollTeams \/ TeamChangeCall

SpecTeams == Init /\ [][NextTeams]_vars

\* the wave numbers a result is asked for: unknown, below, at and past the
\* terminal wave
ResultWaves == {None, 0, 5, 6, 7}

\* one server whose player is on team 1 or on team 4, with direct calls of
\* the result computation
PollSurvivors ==
    \E map_name \in Maps, team \in {1, 4} :
        ProcessServer("alpha", map_name, Text_Wave1,
                      PollPlayers(team, 0, FALSE), 1)

ResultCall ==
    \E session_id \in 1..Len(game_sessions), wave_number \in ResultWaves :
        CallResult(session_id, wave_number)

NextResult == Start \/ PollSurvivors \/ ResultCall

SpecResult == Init /\ [][NextResult]_vars

\* a new server through four cycles: Farm in wave 1 with two players, wave
\* 2, one of the players moves from team 4 to team 3, the map changes to
\* City; the scores and the time between the cycles vary
TaskScenario ==
    /\ cycles < ScenarioCycles
    /\ \E dead \in {"p1", "p2"}, frags \in PlayerFrags, delta \in {1, 2} :
          RunTask("alpha",
                  IF cycles + 1 >= 4 THEN "City" ELSE "Farm",
                  IF cycles + 1 >= 2 THEN Text_Wave2 ELSE Text_Wave1,
                  PollScenario(cycles + 1, dead, frags), delta)
    /\ UNCHANGED <<reporter, pool>>

NextScenario == Start \/ TaskScenario

SpecScenario == Init /\ [][NextScenario]_vars

\* one server on one map whose players die and are redeemed together, the
\* cycles less than a minute or a minute apart, with the reports of the
\* polling thread
PollReport ==
    \E team \in {3, 4}, delta \in {0, 1} :
        ProcessServer("alpha", "Farm", Text_Wave1, PollSquad(team), delta)

NextReport == Start \/ PollReport \/ ReportCycle \/ CallReportDeaths

SpecReport == Init /\ [][NextReport]_vars

\* the server lists that a cycle fetches
FetchedLists ==
    {<<>>, <<"alpha">>, <<"beta">>, <<"alpha", "beta">>, <<"beta", "alpha">>}

\* the polling thread, the queue and the worker threads
PutTasks == \E server_codes \in FetchedLists : Enqueue(server_codes)

TakeTask == \E w \in WorkerIds : WorkerGet(w)

FinishTask == \E w \in WorkerIds : WorkerRun(w) \/ WorkerFail(w)

NextPool == Start \/ PutTasks \/ TakeTask \/ FinishTask \/ Join

SpecPool == Init /\ [][NextPool]_vars

\* the same threads, each of them going on running (no shutdown).  The
\* weak fairness of a worker is written out: its loop (WorkerGet, WorkerRun,
\* WorkerFail) can take no step exactly when it holds no task and the queue
\* is empty, and every step of it changes workers[w]
SpecPoolFair ==
    /\ SpecPool
    /\ WF_vars(PutTasks \/ Join)
    /\ \A w \in WorkerIds :
           \/ []<>(workers[w] = NoTask /\ task_queue = <<>>)
           \/ []<><<workers'[w] # workers[w]>>_vars

\* two servers on one map: a server reports no player, or reports players
\* and its detail call fails (fetch_server_details returns None after its
\* retries) or answers with one or two players
NextDetails ==
    \/ Start
    \/ \E server_code \in ServerCodes, current_wave \in {Text_Wave1, Text_Wave2},
          poll \in {PollEmpty, [PlayerCount |-> 1, details |-> NoDetails],
                    PollOne, PollTwo},
          delta \in Deltas :
           ProcessServer(server_code, "Farm", current_wave, poll, delta)

SpecDetails == Init /\ [][NextDetails]_vars

\* wave indicators for the two parsers: something or nothing before one of
\* the spellings of the keyword (or a part of it), a gap, a number or none,
\* and a tail with more digits or a second keyword
ParserTexts ==
    {prefix \o keyword \o gap \o number \o tail :
        prefix \in {<<>>, <<"2", " ">>, <<"x">>},
        keyword \in {<<>>, <<"W", "a", "v", "e">>, <<"w", "A", "V", "e">>,
                     <<"W", "a", "v">>},
        gap \in {<<>>, <<" ">>, <<" ", "\t">>, <<"x">>},
        number \in {<<>>, <<"3">>, <<"1", "2">>, <<"0", "7">>},
        tail \in {<<>>, <<"5">>, <<" ", "W", "a", "v", "e", "9">>}}

\* a call of util.extract_wave_number, as get_active_session makes it
NextParser ==
    \E wave_text \in ParserTexts :
        /\ last' = [NoOp EXCEPT !.op = "extract_wave_number",
                                !.current_wave = wave_text,
                                !.wave_number =
                                    extract_wave_number(wave_text)]
        /\ UNCHANGED <<tables, clock, phase, cycles, calls, reporter, pool>>

SpecParser == Init /\ [][NextParser]_vars

\* one server and one player through ReturnCycles cycles a minute apart: the
\* player changes team and score, comes back to a team, and the map changes
NextReturn ==
    \/ Start
    \/ /\ cycles < ReturnCycles
       /\ \E map_name \in Maps, team \in PlayerTeams, frags \in PlayerFrags :
             RunTask("alpha", map_name, Text_Wave1,
                     PollPlayers(team, frags, FALSE), 1)
       /\ UNCHANGED <<reporter, pool>>

SpecReturn == Init /\ [][NextReturn]_vars

\* one server and one player through RoundCycles cycles: the player dies and
\* is redeemed, the wave goes up, comes back to wave 1 or is not reported,
\* the map changes, and a minute or more than the timeout passes
NextRounds ==
    \/ Start
    \/ /\ cycles < RoundCycles
       /\ \E map_name \in Maps, current_wave \in {<<>>, Text_Wave1, Text_Wave2},
             team \in {3, 4}, delta \in {1, 16} :
             RunTask("alpha", map_name, current_wave,
                     PollPlayers(team, 0, FALSE), delta)
       /\ UNCHANGED <<reporter, pool>>

SpecRounds == Init /\ [][NextRounds]_vars

(***************************************************************************)
(* Two workers closing sessions at the same time.  The fold of             *)
(* update_player_playtimes is taken statement by statement: every worker   *)
(* has its own connection, a SELECT runs outside a transaction, and the    *)
(* write transaction of a player (the first INSERT or UPDATE up to the     *)
(* commit of line 330) is one step.  The frame of a worker holds its local *)
(* variables.                                                              *)
(***************************************************************************)
FoldCycles == 3

\* cursor.fetchone() of lines 265-271 with no row
NoStats == [id |-> 0, total_score |-> 0, total_playtime_seconds |-> 0,
            session_count |-> 0]

\* lines 265-271: SELECT id, total_score, total_playtime_seconds,
\* session_count FROM player_stats WHERE steam_id = ?
SelectPlayerStats(db, steam_id) ==
    IF StatsId(db, steam_id) = 0 THEN NoStats
    ELSE [id |-> StatsId(db, steam_id),
          total_score |-> db.player_stats[StatsId(db, steam_id)].total_score,
          total_playtime_seconds |->
              db.player_stats[StatsId(db, steam_id)].total_playtime_seconds,
          session_count |->
              db.player_stats[StatsId(db, steam_id)].session_count]

\* lines 309-328 with the row fetched earlier: the UPDATE writes the sums
\* computed in Python from that row, the INSERT a first row
WritePlayerStats(db, player_stats_row, steam_id, score, playtime) ==
    IF player_stats_row.id # 0
    THEN [db EXCEPT
            !.player_stats[player_stats_row.id].total_score =
                player_stats_row.total_score + score,
            !.player_stats[player_stats_row.id].total_playtime_seconds =
                player_stats_row.total_playtime_seconds + playtime,
            !.player_stats[player_stats_row.id].session_count =
                player_stats_row.session_count + 1]
    ELSE [db EXCEPT !.player_stats =
             Append(@, [steam_id |-> steam_id,
                        total_score |-> score,
                        total_playtime_seconds |-> playtime,
                        session_count |-> 1])]

Folding(w) == "pc" \in DOMAIN workers[w]

Idle == \A w \in WorkerIds : workers[w] = NoTask

\* the polls that build the sessions, one task at a time
FoldSetup ==
    /\ cycles < FoldCycles
    /\ Idle
    /\ \E server_code \in ServerCodes, frags \in PlayerFrags :
          RunTask(server_code, "Farm", Text_Wave1,
                  PollPlayers(4, frags, FALSE), 1)
    /\ UNCHANGED <<reporter, pool>>

\* session_manager.py 180-196: a worker finds the active session of its
\* server on another map, closes it and writes the wave-end snapshot; the
\* fold of lines 197-198 follows in the steps below
WorkerClose(w, server_code) ==
    /\ phase = "running"
    /\ cycles >= FoldCycles
    /\ cycles < FoldCycles + Workers
    /\ workers[w] = NoTask
    /\ \A v \in WorkerIds : workers[v].server_code # server_code
    /\ \E server_id \in {i \in 1..Len(servers) :
                            servers[i].server_code = server_code} :
       \E s \in {ActiveSessionOfServer(DB, server_id)} \ {0} :
          /\ Store(save_wave_end_snapshot(
                       CloseWithResult(DB, s, clock,
                           determine_session_result(DB, s,
                               game_sessions[s].wave_number)
                               \o " - Map Changed"),
                       s, OrZero(game_sessions[s].wave_number),
                       "Map Changed", clock))
          /\ workers' = [workers EXCEPT ![w] =
                 [server_code |-> server_code, cycle |-> cycles,
                  pc |-> "select", session_id |-> s,
                  players |-> SetToSortedSeq({i \in 1..Len(player_records) :
                                 /\ player_records[i].session_id = s
                                 /\ player_records[i].is_bot = 0}),
                  player_stats |-> NoStats]]
    /\ UNCHANGED <<clock, phase, cycles, calls, last, reporter,
                   task_queue, unfinished_tasks, monitor, exited>>

\* player_manager.py 232-271: the next player of the batch and the SELECT
\* of the player's player_stats row; after the last player, line 198
FoldSelect(w) ==
    /\ Folding(w)
    /\ workers[w].pc = "select"
    /\ workers' = [workers EXCEPT ![w] =
          IF workers[w].players = <<>>
          THEN [@ EXCEPT !.pc = "deaths"]
          ELSE [@ EXCEPT !.pc = "upsert",
                         !.player_stats = SelectPlayerStats(DB,
                             player_records[Head(workers[w].players)]
                                 .steam_id)]]
    /\ UNCHANGED <<tables, clock, phase, cycles, calls, last, reporter,
                   task_queue, unfinished_tasks, monitor, exited>>

\* player_manager.py 273-330: the session score, the close of the current
\* stint and the UPDATE or INSERT of player_stats from the row fetched
\* before, committed together; an INSERT for a steam id that has a row by
\* now fails on UNIQUE(steam_id): lines 405-410 roll back and continue
FoldUpsert(w) ==
    /\ Folding(w)
    /\ workers[w].pc = "upsert"
    /\ \E p \in {Head(workers[w].players)} :
          IF /\ workers[w].player_stats.id = 0
             /\ StatsId(DB, player_records[p].steam_id) # 0
          THEN /\ UNCHANGED tables
               /\ workers' = [workers EXCEPT ![w].pc = "select",
                                             ![w].players = Tail(@)]
          ELSE /\ Store(WritePlayerStats(
                            CloseCurrentStint(DB, p, workers[w].session_id),
                            workers[w].player_stats,
                            player_records[p].steam_id,
                            total_session_score(DB, p, workers[w].session_id),
                            playtime_seconds(DB, p)))
               /\ workers' = [workers EXCEPT ![w].pc = "teams"]
    /\ UNCHANGED <<clock, phase, cycles, calls, last, reporter,
                   task_queue, unfinished_tasks, monitor, exited>>

\* player_manager.py 332-403: the per-team statistics of the player
FoldTeamStats(w) ==
    /\ Folding(w)
    /\ workers[w].pc = "teams"
    /\ \E p \in {Head(workers[w].players)} :
          Store(FoldTeams(DB, p, workers[w].session_id,
                          player_records[p].steam_id,
                          playtime_seconds(DB, p)))
    /\ workers' = [workers EXCEPT ![w].pc = "select", ![w].players = Tail(@)]
    /\ UNCHANGED <<clock, phase, cycles, calls, last, reporter,
                   task_queue, unfinished_tasks, monitor, exited>>

\* session_manager.py 198: update_death_statistics(old_session_id)
FoldDeathStats(w) ==
    /\ Folding(w)
    /\ workers[w].pc = "deaths"
    /\ Store(update_death_statistics(DB, workers[w].session_id))
    /\ workers' = [workers EXCEPT ![w].pc = "create"]
    /\ UNCHANGED <<clock, phase, cycles, calls, last, reporter,
                   task_queue, unfinished_tasks, monitor, exited>>

\* the rest of the task: with the old session closed, the new session on
\* the new map, its status rows and its players
WorkerFinish(w) ==
    /\ Folding(w)
    /\ workers[w].pc = "create"
    /\ \E map_name \in Maps \ {game_sessions[workers[w].session_id].map_name} :
          RunTask(workers[w].server_code, map_name, Text_Wave1,
                  PollPlayers(4, 0, FALSE), 0)
    /\ workers' = [workers EXCEPT ![w] = NoTask]
    /\ UNCHANGED <<reporter, task_queue, unfinished_tasks, monitor, exited>>

NextFold ==
    \/ Start
    \/ FoldSetup
    \/ \E w \in WorkerIds, server_code \in ServerCodes :
          WorkerClose(w, server_code)
    \/ \E w \in WorkerIds : FoldSelect(w)
    \/ \E w \in WorkerIds : FoldUpsert(w)
    \/ \E w \in WorkerIds : FoldTeamStats(w)
    \/ \E w \in WorkerIds : FoldDeathStats(w)
    \/ \E w \in WorkerIds : WorkerFinish(w)

SpecFold == Init /\ [][NextFold]_vars

\* one server whose answer may carry "Map": null: server_data.get('Map',
\* 'Unknown') is then None (NullText) and the INSERT of a new session fails
FailureCycles == 4

NextFailure ==
    \/ Start
    \/ /\ cycles < FailureCycles
       /\ \E map_name \in {"Farm", NullText}, team \in PlayerTeams,
             frags \in PlayerFrags :
             RunTask("alpha", map_name, Text_Wave1,
                     PollPlayers(team, frags, FALSE), 1)
       /\ UNCHANGED <<reporter, pool>>

SpecFailure == Init /\ [][NextFailure]_vars

\* the threads with the shutdown signal; every thread goes on running
StopWorker == \E w \in WorkerIds : WorkerExit(w)

NextStop ==
    \/ Start \/ PutTasks \/ TakeTask \/ FinishTask \/ Join
    \/ SetStop \/ StopWorker \/ MonitorExit

SpecStop ==
    /\ Init /\ [][NextStop]_vars
    /\ WF_vars(PutTasks \/ Join \/ MonitorExit)
    /\ \A w \in WorkerIds :
          WF_vars(WorkerGet(w) \/ WorkerRun(w) \/ WorkerExit(w))

(***************************************************************************)
(* Properties.  In an action formula the unprimed tables are the database  *)
(* on entry of the operation and the primed ones the database it leaves;   *)
(* last' holds the operation's arguments and what it returned.             *)
(***************************************************************************)
ActiveSessions(server_id) ==
    {i \in 1..Len(game_sessions) :
        /\ game_sessions[i].server_id = server_id
        /\ game_sessions[i].is_active = 1}

\* the step is a task whose server had the active session s on entry
TaskOn(s) ==
    /\ last'.op = "process_server"
    /\ s \in ActiveSessions(last'.server_id)

\* the step closes session s and returns a session created by the step
ReplacedBy(s) ==
    /\ game_sessions'[s].is_active = 0
    /\ game_sessions'[s].end_time = clock'
    /\ Len(game_sessions') = Len(game_sessions) + 1
    /\ last'.session_id = Len(game_sessions')
    /\ game_sessions'[last'.session_id].is_active = 1
    /\ game_sessions'[last'.session_id].server_id = last'.server_id
    /\ game_sessions'[last'.session_id].map_name = last'.map_name

\* the step leaves session s active, creates no session and returns s
Continued(s) ==
    /\ game_sessions'[s].is_active = 1
    /\ game_sessions'[s].end_time = None
    /\ Len(game_sessions') = Len(game_sessions)
    /\ last'.session_id = s

HasSnapshot(records, session_id, wave_number, reason) ==
    \E i \in 1..Len(records) :
        /\ records[i].session_id = session_id
        /\ records[i].wave_number = wave_number
        /\ records[i].reason = reason

\* C1: every server has at most one session with is_active = 1, after any
\* sequence of tasks (map changes, round restarts, timeouts) and starts of
\* the monitor.
C1_AtMostOneActive ==
    \A server_id \in 1..Len(servers) :
        Cardinality(ActiveSessions(server_id)) <= 1

\* both servers have an active session and a closed one, and the monitor
\* has been started
C1_Witness ==
    /\ Len(servers) = 2
    /\ \A server_id \in 1..2 : Cardinality(ActiveSessions(server_id)) = 1
    /\ \E i \in 1..Len(game_sessions) : game_sessions[i].is_active = 0

\* the closed sessions that hold a non-bot record of a steam id
ClosedSessionsOf(steam_id) ==
    {i \in 1..Len(game_sessions) :
        /\ game_sessions[i].is_active = 0
        /\ \E p \in 1..Len(player_records) :
              /\ player_records[p].session_id = i
              /\ player_records[p].steam_id = steam_id
              /\ player_records[p].is_bot = 0}

RECURSIVE SumPlaytime(_)
SumPlaytime(records) ==
    IF records = <<>> THEN 0
    ELSE playtime_seconds(DB, Head(records)) + SumPlaytime(Tail(records))

\* the playtime of a steam id's records in closed sessions
ClosedPlaytimeOf(steam_id) ==
    SumPlaytime(SetToSortedSeq({p \in 1..Len(player_records) :
        /\ player_records[p].steam_id = steam_id
        /\ player_records[p].is_bot = 0
        /\ game_sessions[player_records[p].session_id].is_active = 0}))

\* C2: every closed session has been folded exactly once: a non-bot player's
\* session_count is the number of closed sessions that hold a record of the
\* player, and the cumulative playtime is the sum of those records'
\* playtimes.
C2_FoldedExactlyOnce ==
    \A p \in 1..Len(player_records) :
        (/\ player_records[p].is_bot = 0
         /\ game_sessions[player_records[p].session_id].is_active = 0)
        => \E i \in 1..Len(player_stats) :
              /\ player_stats[i].steam_id = player_records[p].steam_id
              /\ player_stats[i].session_count =
                     Cardinality(ClosedSessionsOf(player_records[p].steam_id))
              /\ player_stats[i].total_playtime_seconds =
                     ClosedPlaytimeOf(player_records[p].steam_id)

\* the parsed wave of the task's snapshot and, for a session, the stored one
ParsedWave == extract_wave_number(last'.current_wave)

SameMapTask(s) ==
    /\ TaskOn(s)
    /\ game_sessions[s].map_name = last'.map_name

WaveRegression(s) ==
    /\ SameMapTask(s)
    /\ ParsedWave # None
    /\ game_sessions[s].wave_number # None
    /\ ParsedWave < game_sessions[s].wave_number

SeenWave(s, wave_number) ==
    \E i \in 1..Len(server_status) :
        /\ server_status[i].session_id = s
        /\ server_status[i].wave_number = wave_number

NoFold ==
    UNCHANGED <<player_stats, player_team_stats, player_death_stats,
                player_redeem_stats>>

\* C3: a wave regression on the same map to a wave that a status record of
\* the session already has, or to wave 1, closes the session with the
\* computed result followed by " - Round Restarted", saves the wave-end
\* snapshot (stored wave, "Round Restarted") and returns a new active
\* session.
C3_RoundRestart ==
    [][\A s \in 1..Len(game_sessions) :
          (/\ WaveRegression(s)
           /\ (SeenWave(s, ParsedWave) \/ ParsedWave = 1))
          => /\ ReplacedBy(s)
             /\ game_sessions'[s].session_result =
                    determine_session_result(DB, s,
                        game_sessions[s].wave_number)
                    \o " - Round Restarted"
             /\ HasSnapshot(wave_end_records', s,
                            game_sessions[s].wave_number, "Round Restarted")
      ]_vars

\* a round restart to a wave other than 1 has happened
C3_Witness ==
    /\ last.op = "process_server"
    /\ last.active_before # 0
    /\ last.session_id = Len(game_sessions)
    /\ last.session_id # last.active_before
    /\ extract_wave_number(last.current_wave) > 1
    /\ HasSnapshot(wave_end_records, last.active_before, last.wave_before,
                   "Round Restarted")

\* C4: a wave regression to a wave other than 1 that no status record of the
\* session has leaves the session active, creates no session and no
\* wave-end snapshot, folds nothing, returns the same id and stores the
\* parsed wave and the refreshed peak.
C4_BenignReset ==
    [][\A s \in 1..Len(game_sessions) :
          (/\ WaveRegression(s)
           /\ ~SeenWave(s, ParsedWave)
           /\ ParsedWave # 1)
          => /\ Continued(s)
             /\ UNCHANGED <<wave_end_records, player_wave_scores>>
             /\ NoFold
             /\ game_sessions'[s].wave_number = ParsedWave
             /\ game_sessions'[s].peak_player_count =
                    Max(game_sessions[s].peak_player_count,
                        last'.player_count)
      ]_vars

\* a benign reset has happened, and it raised the peak
C4_Witness ==
    /\ last.op = "process_server"
    /\ last.active_before # 0
    /\ last.session_id = last.active_before
    /\ last.wave_before # None
    /\ extract_wave_number(last.current_wave) # None
    /\ extract_wave_number(last.current_wave) < last.wave_before
    /\ game_sessions[last.session_id].is_active = 1
    /\ game_sessions[last.session_id].peak_player_count = last.player_count
    /\ last.player_count = 2
    /\ Len(server_status) = 2

\* C5: a task whose map differs from the active session's map closes that
\* session with the result computed from the stored wave followed by
\* " - Map Changed" and returns a new active session on the snapshot's map.
C5_MapChange ==
    [][\A s \in 1..Len(game_sessions) :
          (/\ TaskOn(s)
           /\ game_sessions[s].map_name # last'.map_name)
          => /\ ReplacedBy(s)
             /\ game_sessions'[s].session_result =
                    determine_session_result(DB, s,
                        game_sessions[s].wave_number)
                    \o " - Map Changed"
      ]_vars

\* a session won on wave 6 has been closed by a map change
C5_Witness ==
    /\ last.op = "process_server"
    /\ last.active_before # 0
    /\ last.session_id = Len(game_sessions)
    /\ game_sessions[last.active_before].map_name # last.map_name
    /\ game_sessions[last.active_before].is_active = 0
    /\ game_sessions[last.active_before].session_result =
           "Win - Completed Wave 6 - Map Changed"

\* C6: a wave progression on the same map saves the wave-end snapshot
\* (stored wave, "Wave Completed") if and only if the stored wave is greater
\* than 0, and neither closes the session nor creates one.
C6_WaveProgression ==
    [][\A s \in 1..Len(game_sessions) :
          (/\ SameMapTask(s)
           /\ ParsedWave # None
           /\ game_sessions[s].wave_number # None
           /\ ParsedWave > game_sessions[s].wave_number)
          => /\ Continued(s)
             /\ IF game_sessions[s].wave_number > 0
                THEN HasSnapshot(wave_end_records', s,
                         game_sessions[s].wave_number, "Wave Completed")
                ELSE /\ UNCHANGED <<wave_end_records, player_wave_scores>>
                     /\ ~HasSnapshot(wave_end_records', s,
                            game_sessions[s].wave_number, "Wave Completed")
      ]_vars

\* a wave progression from a wave greater than 0 has saved its snapshot
C6_Witness ==
    /\ last.op = "process_server"
    /\ last.session_id = last.active_before
    /\ last.wave_before # None
    /\ last.wave_before > 0
    /\ extract_wave_number(last.current_wave) > last.wave_before
    /\ wave_end_records[Len(wave_end_records)] =
           [session_id |-> last.session_id, wave_number |-> last.wave_before,
            timestamp |-> clock, reason |-> "Wave Completed"]

\* the times of the session's status records with player_count > 0
ActiveTimes(s) ==
    {server_status[i].timestamp : i \in
        {j \in 1..Len(server_status) :
            /\ server_status[j].session_id = s
            /\ server_status[j].player_count > 0}}

\* the task finds the parsed wave or the stored wave of session s unknown
WaveUnknown(s) ==
    /\ SameMapTask(s)
    /\ (ParsedWave = None \/ game_sessions[s].wave_number = None)

\* the most recent status record with players is more than 15 minutes old
Stale(s) ==
    /\ ActiveTimes(s) # {}
    /\ \A t \in ActiveTimes(s) : clock' - t > SESSION_TIMEOUT_MINUTES

\* C7: when the parsed wave or the stored wave is unknown, a session whose
\* most recent status record with player_count > 0 is more than 15 minutes
\* old is closed with result 'Loss - Timeout' and gets a wave-end snapshot
\* with reason 'Timeout'; a session whose record is at most 15 minutes old,
\* or that has no such record, is not closed.
C7_Timeout ==
    [][\A s \in 1..Len(game_sessions) :
          WaveUnknown(s)
          => IF Stale(s)
             THEN /\ game_sessions'[s].is_active = 0
                  /\ game_sessions'[s].end_time = clock'
                  /\ game_sessions'[s].session_result = "Loss - Timeout"
                  /\ HasSnapshot(wave_end_records', s,
                                 OrZero(game_sessions[s].wave_number),
                                 "Timeout")
             ELSE /\ game_sessions'[s].is_active = 1
                  /\ game_sessions'[s].end_time = None
                  /\ game_sessions'[s].session_result = NullText
                  /\ UNCHANGED wave_end_records
      ]_vars

\* a session with a known stored wave has been closed by the timeout
C7_Witness ==
    /\ last.op = "process_server"
    /\ last.active_before # 0
    /\ last.current_wave = <<>>
    /\ last.wave_before > 0
    /\ game_sessions[last.active_before].session_result = "Loss - Timeout"
    /\ game_sessions[last.active_before].end_time = clock
    /\ HasSnapshot(wave_end_records, last.active_before, last.wave_before,
                   "Timeout")

\* C8 as stated: the task that closes a session by the inactivity timeout
\* creates no session for the server when its snapshot has no player.
C8_NoSessionUntilPlayers ==
    [][\A s \in 1..Len(game_sessions) :
          (/\ WaveUnknown(s)
           /\ Stale(s)
           /\ last'.player_count < MIN_PLAYERS_FOR_SESSION)
          => Len(game_sessions') = Len(game_sessions)
      ]_vars

\* C8: the task that closes a session by the inactivity timeout creates a
\* new active session for the server in the same call and returns it,
\* whatever the player count of its snapshot.
C8_NewSessionAtTimeout ==
    [][\A s \in 1..Len(game_sessions) :
          (WaveUnknown(s) /\ Stale(s)) => ReplacedBy(s)
      ]_vars

\* a timeout with an empty snapshot has created a session
C8_Witness ==
    /\ last.op = "process_server"
    /\ last.player_count = 0
    /\ last.active_before # 0
    /\ game_sessions[last.active_before].session_result = "Loss - Timeout"
    /\ game_sessions[last.active_before].end_time = clock
    /\ last.session_id = Len(game_sessions)
    /\ last.session_id # last.active_before
    /\ game_sessions[last.session_id].is_active = 1
    /\ game_sessions[last.session_id].peak_player_count = 0

\* the wave_end_records rows of a call's triple, as the call stores it
SnapshotRows(records, session_id, wave_number, reason) ==
    {i \in 1..Len(records) :
        /\ records[i].session_id = session_id
        /\ records[i].wave_number = SnapshotWave(wave_number)
        /\ records[i].reason = SnapshotReason(wave_number, reason)}

\* every player record of the session has exactly one player_wave_scores
\* row of the snapshot
OneScoreRowEach(records, scores, session_id, wave_end_id) ==
    \A p \in 1..Len(records) :
        records[p].session_id = session_id
        => Cardinality({j \in 1..Len(scores) :
               /\ scores[j].wave_end_id = wave_end_id
               /\ scores[j].player_id = p}) = 1

\* C9: a call of save_wave_end_snapshot for an existing session whose triple
\* has no row inserts one wave_end_records row and one player_wave_scores
\* row per player record of the session; a call whose triple has a row (the
\* second of two calls with the same triple) changes nothing; either way the
\* triple has exactly one row afterwards.
C9_SnapshotIdempotent ==
    [][(/\ last'.op = "save_wave_end_snapshot"
        /\ last'.session_id \in 1..Len(game_sessions))
       => LET before == SnapshotRows(wave_end_records, last'.session_id,
                                     last'.wave_number, last'.reason)
              after == SnapshotRows(wave_end_records', last'.session_id,
                                    last'.wave_number, last'.reason)
          IN /\ Cardinality(after) = 1
             /\ before # {} => UNCHANGED tables
             /\ last'.repeat => UNCHANGED tables
             /\ before = {}
                => /\ after = {Len(wave_end_records')}
                   /\ OneScoreRowEach(player_records', player_wave_scores',
                          last'.session_id, Len(wave_end_records'))
      ]_vars

\* two calls with the same triple have been made in a row for a session
\* with two player records; the triple has the one row the first call
\* inserted, with its two score rows
C9_Witness ==
    /\ last.op = "save_wave_end_snapshot"
    /\ last.repeat
    /\ last.session_id \in 1..Len(game_sessions)
    /\ Cardinality({p \in 1..Len(player_records) :
           player_records[p].session_id = last.session_id}) = 2
    /\ SnapshotRows(wave_end_records, last.session_id, last.wave_number,
                    last.reason) = {Len(wave_end_records)}
    /\ OneScoreRowEach(player_records, player_wave_scores, last.session_id,
                       Len(wave_end_records))

\* C10: a start of the monitor closes every session that was active, with
\* end_time set and session_result 'Incomplete - Server Restart'.
C10_StartupRecovery ==
    [][last'.op = "start"
       => \A s \in 1..Len(game_sessions) :
             game_sessions[s].is_active = 1
             => /\ game_sessions'[s].is_active = 0
                /\ game_sessions'[s].end_time # None
                /\ game_sessions'[s].session_result =
                       "Incomplete - Server Restart"
      ]_vars

\* C11: a start-up recovery that follows another one with no task in
\* between folds nothing: player_stats, player_team_stats,
\* player_death_stats and player_redeem_stats are unchanged, so no
\* cumulative score, playtime, session count, death count or redeem count
\* of a session that is already closed changes.
C11_RecoveryFoldsOnce ==
    [][(last'.op = "start" /\ last'.repeat) => NoFold]_vars

\* a second recovery in a row has run on a database that holds a closed
\* session with a folded player
C11_Witness ==
    /\ last.op = "start"
    /\ last.repeat
    /\ \E s \in 1..Len(game_sessions) :
          /\ game_sessions[s].is_active = 0
          /\ \E p \in 1..Len(player_records) :
                /\ player_records[p].session_id = s
                /\ \E i \in 1..Len(player_stats) :
                      /\ player_stats[i].steam_id = player_records[p].steam_id
                      /\ player_stats[i].session_count >= 1

(***************************************************************************)
(* The ledger of a session's players and its fold into the statistics.     *)
(***************************************************************************)
\* the sessions that the step closes
ClosedByStep ==
    {s \in 1..Len(game_sessions) :
        game_sessions[s].is_active = 1 /\ game_sessions'[s].is_active = 0}

\* the records of the human players of a session
HumanRecords(records, session_id) ==
    {p \in 1..Len(records) :
        records[p].session_id = session_id /\ records[p].is_bot = 0}

\* the stints of a player record in its session
StintsOf(scores, records, p) ==
    {i \in 1..Len(scores) :
        /\ scores[i].player_id = p
        /\ scores[i].session_id = records[p].session_id}

\* the sum of final_score - initial_score over a set of stints
RECURSIVE EarnedOver(_, _)
EarnedOver(scores, S) ==
    IF S = {} THEN 0
    ELSE LET i == CHOOSE x \in S : TRUE
         IN (scores[i].final_score - scores[i].initial_score)
                + EarnedOver(scores, S \ {i})

\* a column of the statistics row of a steam id, 0 when there is no row
StatOf(stats, steam_id, column) ==
    LET S == {i \in 1..Len(stats) : stats[i].steam_id = steam_id}
    IN IF S = {} THEN 0 ELSE stats[CHOOSE i \in S : TRUE][column]

\* the step folds the record once
FoldedOnce(p) ==
    StatOf(player_stats', player_records[p].steam_id, "session_count")
        = StatOf(player_stats, player_records[p].steam_id, "session_count") + 1

\* what the step adds to the cumulative score of the player of a record
ScoreAdded(p) ==
    StatOf(player_stats', player_records[p].steam_id, "total_score")
        - StatOf(player_stats, player_records[p].steam_id, "total_score")

\* C12: when a session is closed and a human player's record is folded once,
\* the score added to the player's cumulative score is the sum of
\* final_score - initial_score over the stints the record has on entry of
\* the fold when it has at least one, and the record's raw current score
\* when it has none.
C12_SessionScore ==
    [][\A s \in ClosedByStep : \A p \in HumanRecords(player_records, s) :
          FoldedOnce(p) =>
              ScoreAdded(p) =
                  IF StintsOf(player_team_scores, player_records, p) # {}
                  THEN EarnedOver(player_team_scores,
                                  StintsOf(player_team_scores,
                                           player_records, p))
                  ELSE player_records[p].current_score]_vars

\* a closed session whose human player has a stint and was folded with a
\* score other than the raw current score
C12_Witness ==
    \E s \in 1..Len(game_sessions) :
        \E p \in HumanRecords(player_records, s) :
            /\ game_sessions[s].is_active = 0
            /\ StintsOf(player_team_scores, player_records, p) # {}
            /\ StatOf(player_stats, player_records[p].steam_id,
                      "session_count") = 1
            /\ StatOf(player_stats, player_records[p].steam_id,
                      "total_score") # player_records[p].current_score

\* C13: the score that the fold of a session adds to a player's cumulative
\* score is never negative, whatever scores were observed in the session.
C13_ScoreNeverNegative ==
    [][\A s \in ClosedByStep : \A p \in HumanRecords(player_records, s) :
          FoldedOnce(p) => ScoreAdded(p) >= 0]_vars

\* the pair of teams of a team-change event
TeamPair(e) == <<e.old_team_id, e.new_team_id>>

\* C14: a team-change event between known teams is marked death exactly
\* when it goes from team 4 to team 3 or 1002, redemption exactly when it
\* goes from team 3 to team 4, and neither for every other pair; no event
\* is marked both.
C14_TeamChangeClassification ==
    \A i \in 1..Len(player_team_changes) :
        (TeamPair(player_team_changes[i]) \in TeamIds \X TeamIds) =>
            /\ player_team_changes[i].is_death \in {0, 1}
            /\ player_team_changes[i].is_redeem \in {0, 1}
            /\ player_team_changes[i].is_death = 1
                    <=> TeamPair(player_team_changes[i])
                            \in {<<4, 3>>, <<4, 1002>>}
            /\ player_team_changes[i].is_redeem = 1
                    <=> TeamPair(player_team_changes[i]) = <<3, 4>>
            /\ ~(/\ player_team_changes[i].is_death = 1
                  /\ player_team_changes[i].is_redeem = 1)

\* the log holds the death of a player who went to the spectators and,
\* after it, the redemption of a player
C14_Witness ==
    \E i, j \in 1..Len(player_team_changes) :
        /\ i < j
        /\ TeamPair(player_team_changes[i]) = <<4, 1002>>
        /\ player_team_changes[i].is_death = 1
        /\ TeamPair(player_team_changes[j]) = <<3, 4>>
        /\ player_team_changes[j].is_redeem = 1

\* the record that a session holds of a steam id on entry of the step, or 0
RecordOf(records, session_id, steam_id) ==
    LET S == {p \in 1..Len(records) :
                /\ records[p].session_id = session_id
                /\ records[p].steam_id = steam_id}
    IN IF S = {} THEN 0 ELSE CHOOSE p \in S : TRUE

\* the team-change events of a player record
EventsOf(changes, p) == {i \in 1..Len(changes) : changes[i].player_id = p}

\* the players of the task's list that the session already has a record of
\* and whose stored or reported team is absent
AbsentTeam(i) ==
    /\ last'.op = "process_server"
    /\ Truthy(last'.session_id)
    /\ RecordOf(player_records, last'.session_id,
                PlayerSteamId(last'.players[i])) # 0
    /\ \/ last'.players[i].Team = None
       \/ player_records[RecordOf(player_records, last'.session_id,
               PlayerSteamId(last'.players[i]))].team_id = None

\* the step leaves the record p with the team and score of the reported
\* player and the time of the task, and logs no team change for it
RefreshedQuietly(p, player) ==
    /\ EventsOf(player_team_changes', p) = EventsOf(player_team_changes, p)
    /\ player_records'[p].team_id = player.Team
    /\ player_records'[p].current_score = player.Frags
    /\ player_records'[p].last_seen = clock'

\* C15: when the team stored for a player or the team reported for it is
\* absent, update_player_record logs no team-change event and still
\* refreshes the record's team, score and last_seen.
C15_AbsentTeam ==
    [][\A i \in 1..Len(last'.players) :
          AbsentTeam(i) =>
              RefreshedQuietly(RecordOf(player_records, last'.session_id,
                                        PlayerSteamId(last'.players[i])),
                               last'.players[i])]_vars

\* a task reported a player with no team and a new score; the record,
\* older than the task, has them
C15_Witness ==
    /\ last.op = "process_server"
    /\ \E i \in 1..Len(last.players) : \E p \in 1..Len(player_records) :
           /\ last.players[i].Team = None
           /\ player_records[p].session_id = last.session_id
           /\ player_records[p].steam_id = last.players[i].SteamID64
           /\ player_records[p].first_seen < player_records[p].last_seen
           /\ player_records[p].last_seen = clock
           /\ player_records[p].team_id = None
           /\ player_records[p].initial_score # player_records[p].current_score

\* the stored surviving-team count of the session a result was asked for
Survivors == game_sessions[last.session_id].team1_player_count

\* C16: determine_session_result answers 'Unknown Result - Missing Wave
\* Data' for an unknown wave, 'Win - Completed Wave 6' for the terminal wave
\* with a surviving-team count above zero, 'Loss - No Survivors' only for a
\* wave at or past the terminal wave with a surviving-team count of zero,
\* and 'Loss - Ended on Wave <n>' for every wave below the terminal wave.
C16_SessionResult ==
    (/\ last.op = "determine_session_result"
     /\ last.session_id \in 1..Len(game_sessions)) =>
        /\ last.wave_number = None
               => last.result = "Unknown Result - Missing Wave Data"
        /\ (last.wave_number = TERMINAL_WAVE /\ Survivors > 0)
               => last.result = "Win - Completed Wave 6"
        /\ last.result = "Loss - No Survivors"
               => /\ last.wave_number # None
                  /\ last.wave_number >= TERMINAL_WAVE
                  /\ Survivors = 0
        /\ (last.wave_number # None /\ last.wave_number < TERMINAL_WAVE)
               => last.result
                      = "Loss - Ended on Wave " \o ToString(last.wave_number)

\* the steam id of the player of a team-change event
EventSteamId(e) == player_records[e.player_id].steam_id

\* C17: in the scenario of four cycles on a new server the first cycle
\* creates one session in wave 1; the second saves exactly one wave-end
\* snapshot, for wave 1 with reason 'Wave Completed', and sets the session
\* to wave 2; the third appends exactly one team-change event, a death; the
\* fourth closes the session with 'Loss - Ended on Wave 2 - Map Changed',
\* folds both players once and leaves the death count of the player who
\* went from team 4 to team 3 at 1.
C17_Scenario ==
    /\ cycles = 1 =>
          /\ Len(game_sessions) = 1
          /\ game_sessions[1].is_active = 1
          /\ game_sessions[1].map_name = "Farm"
          /\ game_sessions[1].wave_number = 1
    /\ cycles = 2 =>
          /\ Len(game_sessions) = 1
          /\ game_sessions[1].wave_number = 2
          /\ Len(wave_end_records) = 1
          /\ wave_end_records[1].session_id = 1
          /\ wave_end_records[1].wave_number = 1
          /\ wave_end_records[1].reason = "Wave Completed"
    /\ cycles = 3 =>
          /\ Len(game_sessions) = 1
          /\ Len(player_team_changes) = 1
          /\ player_team_changes[1].session_id = 1
          /\ TeamPair(player_team_changes[1]) = <<4, 3>>
          /\ player_team_changes[1].is_death = 1
          /\ player_team_changes[1].is_redeem = 0
    /\ cycles >= 4 =>
          /\ game_sessions[1].is_active = 0
          /\ game_sessions[1].session_result
                = "Loss - Ended on Wave 2 - Map Changed"
          /\ \A steam_id \in {"p1", "p2"} :
                /\ StatOf(player_stats, steam_id, "session_count") = 1
                /\ StatOf(player_death_stats, steam_id, "total_deaths")
                     = IF steam_id = EventSteamId(player_team_changes[1])
                       THEN 1 ELSE 0

\* the scenario has run: the Farm session is closed and the City session is
\* open, and the death of the third cycle is in the statistics
C17_Witness ==
    /\ cycles = 4
    /\ Len(game_sessions) = 2
    /\ game_sessions[1].is_active = 0
    /\ game_sessions[2].map_name = "City"
    /\ game_sessions[2].is_active = 1
    /\ Len(player_death_stats) = 1
    /\ player_death_stats[1].total_deaths = 1

\* what the step adds to the cumulative playtime of the player of a record
PlaytimeAdded(p) ==
    StatOf(player_stats', player_records[p].steam_id,
           "total_playtime_seconds")
        - StatOf(player_stats, player_records[p].steam_id,
                 "total_playtime_seconds")

\* the record was refreshed by the last task that recorded the session
PresentInLastCycle(records, status, p) ==
    \A i \in 1..Len(status) :
        status[i].session_id = records[p].session_id
            => status[i].timestamp <= records[p].last_seen

\* C18 as stated: the playtime added for a human player present in the last
\* cycle of a closing session runs from first_seen to the close timestamp
\* of the session.
C18_PlaytimeToClose ==
    [][\A s \in ClosedByStep : \A p \in HumanRecords(player_records, s) :
          (FoldedOnce(p)
           /\ PresentInLastCycle(player_records, server_status, p)) =>
              PlaytimeAdded(p) =
                  (game_sessions'[s].end_time - player_records[p].first_seen)
                      * SECONDS_PER_MINUTE]_vars

\* C18, amended: the playtime added for a human player of a closing session
\* runs from the player's first_seen to the player's last_seen, the time of
\* the last task that recorded the player.
C18_PlaytimeToLastSeen ==
    [][\A s \in ClosedByStep : \A p \in HumanRecords(player_records, s) :
          FoldedOnce(p) =>
              PlaytimeAdded(p) =
                  (player_records[p].last_seen - player_records[p].first_seen)
                      * SECONDS_PER_MINUTE]_vars

\* a closed session with a human player seen in its first and in its last
\* cycle, folded with the time between the two, less than the time to the
\* close
C18_Witness ==
    \E s \in 1..Len(game_sessions) :
        \E p \in HumanRecords(player_records, s) :
            /\ game_sessions[s].is_active = 0
            /\ PresentInLastCycle(player_records, server_status, p)
            /\ player_records[p].first_seen < player_records[p].last_seen
            /\ player_records[p].last_seen < game_sessions[s].end_time
            /\ StatOf(player_stats, player_records[p].steam_id,
                      "session_count") = 1
            /\ StatOf(player_stats, player_records[p].steam_id,
                      "total_playtime_seconds")
                 = (player_records[p].last_seen
                        - player_records[p].first_seen) * SECONDS_PER_MINUTE

\* C19: over the repeated calls of a reporting function every death or
\* redemption event is reported at most once, also after the set of
\* reported ids has been cut back.
C19_ReportedOnce ==
    \A i, j \in 1..Len(reports) : reports[i] = reports[j] => i = j

\* the tasks that are in the queue or in the hands of a worker
PendingTasks(queue, running) ==
    ({queue[i] : i \in 1..Len(queue)} \cup {running[w] : w \in WorkerIds})
        \ {NoTask}

\* the number of tasks of the queue for a server
QueuedFor(queue, server_code) ==
    Cardinality({i \in 1..Len(queue) : queue[i].server_code = server_code})

\* C20: a polling cycle puts exactly one task for every server of the
\* fetched list and none for any other; it begins only when no task of an
\* earlier cycle is queued or running, and every task that is queued, taken
\* or run belongs to the cycle the polling thread is in.
C20_CycleBarrier ==
    [][/\ last'.op = "process_servers" =>
            /\ PendingTasks(task_queue, workers) = {}
            /\ monitor'.cycle = monitor.cycle + 1
            /\ \A server_code \in ServerCodes :
                  QueuedFor(task_queue', server_code)
                      = IF server_code \in monitor'.servers THEN 1 ELSE 0
       /\ \A t \in PendingTasks(task_queue', workers') :
              t.cycle = monitor'.cycle]_vars

\* the second cycle is under way with the tasks of two servers, one in the
\* hands of a worker and one in the queue, after the tasks of the first
\* cycle have run
C20_Witness ==
    /\ monitor.cycle = 2
    /\ monitor.pc = "join"
    /\ cycles >= 1
    /\ task_queue # <<>>
    /\ \E w \in WorkerIds : workers[w] # NoTask

\* C21: no two worker threads run process_server for the same server at
\* the same time.
C21_OneWorkerPerServer ==
    \A v, w \in WorkerIds :
        (/\ v # w
         /\ workers[v] # NoTask
         /\ workers[w] # NoTask) =>
            workers[v].server_code # workers[w].server_code

\* two workers run the tasks of the two servers of a cycle at the same time
C21_Witness ==
    \E v, w \in WorkerIds :
        /\ v # w
        /\ workers[v] # NoTask
        /\ workers[w] # NoTask
        /\ workers[v].cycle = workers[w].cycle
        /\ workers[v].server_code = "alpha"
        /\ workers[w].server_code = "beta"

\* C22: once stop_event is set the polling thread eventually leaves its
\* loop, also when the signal comes while it waits in task_queue.join()
\* with tasks in the queue; the tasks that workers hold are run to their end.
C22_DriverExits ==
    (phase = "stopping") ~> (monitor.pc = "exited")

\* the sessions of the servers other than server_id
SessionsOfOthers(sessions, server_id) ==
    {s \in 1..Len(sessions) : sessions[s].server_id # server_id}

\* the rows of a table that belong to the sessions in S
RowsOfSessions(rows, S) ==
    {i \in 1..Len(rows) : rows[i].session_id \in S}

\* a failed task is marked done and frees its worker; it leaves the queue,
\* the tasks of the other workers and every row of the other servers as they
\* were
FailureContained ==
    last'.op = "process_server_failed" =>
        /\ unfinished_tasks' = unfinished_tasks - 1
        /\ task_queue' = task_queue
        /\ \E w \in WorkerIds :
              /\ workers[w] # NoTask
              /\ workers' = [workers EXCEPT ![w] = NoTask]
        /\ \A i \in 1..Len(servers) :
              i # last'.server_id => servers'[i] = servers[i]
        /\ \A s \in SessionsOfOthers(game_sessions, last'.server_id) :
              game_sessions'[s] = game_sessions[s]
        /\ SessionsOfOthers(game_sessions', last'.server_id)
              = SessionsOfOthers(game_sessions, last'.server_id)
        /\ \A i \in RowsOfSessions(server_status,
                     SessionsOfOthers(game_sessions, last'.server_id)) :
              server_status'[i] = server_status[i]
        /\ RowsOfSessions(server_status',
                 SessionsOfOthers(game_sessions, last'.server_id))
              = RowsOfSessions(server_status,
                    SessionsOfOthers(game_sessions, last'.server_id))
        /\ player_records' = player_records

\* a task that does not fail leaves its server with an active session and a
\* status record of this cycle, whatever failed before it
TaskCompleted ==
    last'.op = "process_server" =>
        /\ last'.session_id \in 1..Len(game_sessions')
        /\ game_sessions'[last'.session_id].server_id = last'.server_id
        /\ game_sessions'[last'.session_id].is_active = 1
        /\ server_status'[Len(server_status')].session_id = last'.session_id
        /\ server_status'[Len(server_status')].timestamp = clock'
        /\ unfinished_tasks' = unfinished_tasks - 1

\* C23: a task that fails at the session decision, the status write or the
\* player update is still marked done and leaves the rows, the queued tasks
\* and the running tasks of the other servers untouched; the tasks of the
\* other servers run to their own result, and the polling thread comes back
\* from its wait for the cycle.
C23_FailureContained ==
    /\ [][FailureContained /\ TaskCompleted]_vars
    /\ (monitor.pc = "join") ~> (monitor.pc = "wait")

\* a cycle of two servers is over: the task of one server failed at the
\* session decision (the server has no session), the task of the other
\* left its session and a status record
C23_Witness ==
    /\ monitor.pc = "wait"
    /\ monitor.cycle = 1
    /\ monitor.servers = {"alpha", "beta"}
    /\ unfinished_tasks = 0
    /\ Len(servers) = 2
    /\ Len(game_sessions) = 1
    /\ Len(server_status) = 1
    /\ Len(player_records) = 1

\* the task of a server that reports players and whose detail call failed
DetailsFailed ==
    /\ last'.op = "process_server"
    /\ last'.player_count >= MIN_PLAYERS_FOR_SESSION
    /\ last'.players = <<>>

\* C24: when a server reports players and its detail call fails or returns
\* nothing, the task leaves the session rows, the status records and the
\* player records as they were.
C24_ServerSkipped ==
    [][DetailsFailed =>
          /\ game_sessions' = game_sessions
          /\ server_status' = server_status
          /\ player_records' = player_records]_vars

\* the players of team team_id in a player list
OnTeam(players, team_id) ==
    Cardinality({i \in 1..Len(players) : players[i].Team = team_id})

\* C25: a task of a server without an active session creates exactly one
\* session and gets its id: active, started at the time of the call, with
\* the wave text and the parsed wave of the snapshot, the player count as
\* peak, and the counts of teams 4 and 3 (0 without team data), whatever the
\* player count.
C25_NewSession ==
    [][(last'.op = "process_server" /\ last'.active_before = 0) =>
          /\ Len(game_sessions') = Len(game_sessions) + 1
          /\ \A s \in 1..Len(game_sessions) :
                game_sessions'[s] = game_sessions[s]
          /\ last'.session_id = Len(game_sessions')
          /\ game_sessions'[last'.session_id] =
                [server_id |-> last'.server_id,
                 map_name |-> last'.map_name,
                 start_time |-> clock',
                 end_time |-> None,
                 peak_player_count |-> last'.player_count,
                 wave_text |-> last'.current_wave,
                 wave_number |-> extract_wave_number(last'.current_wave),
                 is_active |-> 1,
                 team1_player_count |-> OnTeam(last'.players, 4),
                 team2_player_count |-> OnTeam(last'.players, 3),
                 session_result |-> NullText]]_vars

\* the first task of the second server has created its session: no player,
\* no team data, while the first server's session counts a player on team 4
C25_Witness ==
    /\ last.op = "process_server"
    /\ last.active_before = 0
    /\ last.player_count = 0
    /\ last.session_id = 2
    /\ Len(game_sessions) = 2
    /\ game_sessions[1].team1_player_count = 1
    /\ game_sessions[2].peak_player_count = 0

\* the least element of a set of positions
FirstOf(S) == CHOOSE x \in S : \A y \in S : x <= y

\* the positions of a text where 'Wave', in any case, with optional white
\* space and at least one digit begins
WaveAt(t) == {i \in 1..Len(t) : WaveMatchAt(t, i)}

\* the positions of the digits of a text
DigitsAt(t) == {i \in 1..Len(t) : IsDigit(t[i])}

\* C26: extract_wave_number gives the number that follows the first
\* case-insensitive 'Wave' with digits, else the first run of digits, else
\* nothing; nothing for an empty text; and the copy in utils.py gives the
\* same value as the copy in util.py for every text.
C26_ParsersAgree ==
    last.op = "extract_wave_number" =>
        /\ last.wave_number = utils_extract_wave_number(last.current_wave)
        /\ last.wave_number =
              IF WaveAt(last.current_wave) # {}
              THEN ReadInt(last.current_wave,
                           SkipSpaces(last.current_wave,
                               FirstOf(WaveAt(last.current_wave)) + 4), 0)
              ELSE IF DigitsAt(last.current_wave) # {}
              THEN ReadInt(last.current_wave,
                           FirstOf(DigitsAt(last.current_wave)), 0)
              ELSE None
        /\ last.current_wave = <<>> => last.wave_number = None
        /\ last.wave_number = None <=> DigitsAt(last.current_wave) = {}

\* a text with a digit before the keyword in mixed case, white space, a
\* number of two digits and a second keyword: the number is 12
C26_Witness ==
    /\ last.op = "extract_wave_number"
    /\ last.current_wave = <<"2", " ", "w", "A", "V", "e", " ", "\t", "1", "2",
                             " ", "W", "a", "v", "e", "9">>
    /\ last.wave_number = 12

\* the record that the task's session holds, on entry, of the i-th player of
\* the task's list, or 0
RecordOfPlayer(i) ==
    IF last'.op = "process_server" /\ Truthy(last'.session_id)
    THEN RecordOf(player_records, last'.session_id,
                  PlayerSteamId(last'.players[i]))
    ELSE 0

\* the i-th player of the list has a record with a known team and is
\* reported on another known team
TeamChanged(i) ==
    /\ RecordOfPlayer(i) # 0
    /\ player_records[RecordOfPlayer(i)].team_id # None
    /\ last'.players[i].Team # None
    /\ player_records[RecordOfPlayer(i)].team_id # last'.players[i].Team

\* the stints of the player record p for a team
StintsFor(scores, records, p, team_id) ==
    {i \in StintsOf(scores, records, p) : scores[i].team_id = team_id}

\* the step logs one event old_team_id -> new_team_id for the record p,
\* leaves the stint of the old team at the score stored before the step,
\* leaves a stint of the new team and the record on the new team
ChangeRecorded(p, old_team_id, new_team_id) ==
    /\ Len(player_team_changes') = Len(player_team_changes) + 1
    /\ player_team_changes'[Len(player_team_changes')].player_id = p
    /\ player_team_changes'[Len(player_team_changes')].old_team_id
          = old_team_id
    /\ player_team_changes'[Len(player_team_changes')].new_team_id
          = new_team_id
    /\ \E i \in StintsFor(player_team_scores', player_records', p,
                           old_team_id) :
          player_team_scores'[i].final_score
              = player_records[p].current_score
    /\ StintsFor(player_team_scores', player_records', p, new_team_id) # {}
    /\ player_records'[p].team_id = new_team_id

\* C27: every update of an existing player whose stored team and reported
\* team are known and differ appends exactly one team-change event with that
\* old and new team, finalizes the stint of the old team, leaves a stint of
\* the new team and stores the new team, also when the old team had no
\* stint yet.
C27_TeamChangeRecorded ==
    [][\A i \in 1..Len(last'.players) :
          TeamChanged(i) =>
              ChangeRecorded(RecordOfPlayer(i),
                             player_records[RecordOfPlayer(i)].team_id,
                             last'.players[i].Team)]_vars

\* the stint rows that the step creates
CreatedStints ==
    (Len(player_team_scores) + 1)..Len(player_team_scores')

\* the player of the stint i comes to the stint's team in this step: its
\* record is new, or was on another team or on none
FirstSeenOnTeam(i) ==
    \/ player_team_scores'[i].player_id > Len(player_records)
    \/ player_records[player_team_scores'[i].player_id].team_id
          # player_team_scores'[i].team_id

\* C28: every stint row is created with initial_score = final_score = the
\* score observed when the player is first seen on the team, whichever
\* operation creates it (new player, team change, score update, the fold of
\* a closing session).
C28_StintCreation ==
    [][\A i \in CreatedStints :
          /\ player_team_scores'[i].initial_score
                = player_team_scores'[i].final_score
          /\ FirstSeenOnTeam(i) =>
                player_team_scores'[i].initial_score
                    = player_records'[player_team_scores'[i].player_id]
                          .current_score]_vars

\* no two stint rows have the same player record, session and team
UniqueStints(scores) ==
    \A i, j \in 1..Len(scores) :
        (/\ scores[i].player_id = scores[j].player_id
         /\ scores[i].session_id = scores[j].session_id
         /\ scores[i].team_id = scores[j].team_id) => i = j

\* the i-th player of the list comes back to a team that its record already
\* has a stint for
Returned(i) ==
    /\ TeamChanged(i)
    /\ StintsFor(player_team_scores, player_records, RecordOfPlayer(i),
                 last'.players[i].Team) # {}

\* the step leaves the stint rows of the record p for a team as they were,
\* but for the final score, which it may bring to the reported score
StintResumed(p, player) ==
    /\ StintsFor(player_team_scores', player_records', p, player.Team)
          = StintsFor(player_team_scores, player_records, p, player.Team)
    /\ \A i \in StintsFor(player_team_scores, player_records, p,
                           player.Team) :
          /\ player_team_scores'[i].initial_score
                = player_team_scores[i].initial_score
          /\ player_team_scores'[i].final_score
                \in {player_team_scores[i].final_score, player.Frags}

\* C29: after every player update and every session close there is at most
\* one stint per player record, session and team; a player who comes back
\* to a team of earlier in the session gets no second row: the existing
\* stint goes on, with the initial_score it had.
C29_OneStintPerTeam ==
    [][/\ UniqueStints(player_team_scores')
       /\ \A i \in 1..Len(last'.players) :
             Returned(i) => StintResumed(RecordOfPlayer(i),
                                         last'.players[i])]_vars

\* a player went from team 4 to team 3 and back with a higher score: the
\* record has two events and two stints, and that of team 4 runs from the
\* first score to the last
C29_Witness ==
    \E p \in 1..Len(player_records) :
        /\ player_records[p].team_id = 4
        /\ Cardinality(EventsOf(player_team_changes, p)) = 2
        /\ Cardinality(StintsOf(player_team_scores, player_records, p)) = 2
        /\ \E i \in StintsFor(player_team_scores, player_records, p, 4) :
              /\ player_team_scores[i].initial_score = 0
              /\ player_team_scores[i].final_score = 10

\* the step leaves the final score of every stint of a team that its player
\* is not on, neither before nor after the step
StintsFrozen ==
    \A i \in 1..Len(player_team_scores) :
        (/\ player_records[player_team_scores[i].player_id].team_id
               # player_team_scores[i].team_id
         /\ player_records'[player_team_scores[i].player_id].team_id
               # player_team_scores[i].team_id) =>
            player_team_scores'[i].final_score
                = player_team_scores[i].final_score

\* the i-th player of the list is reported on the team its record is on
StaysOnTeam(i) ==
    /\ RecordOfPlayer(i) # 0
    /\ last'.players[i].Team # None
    /\ player_records[RecordOfPlayer(i)].team_id = last'.players[i].Team

\* C30: no player update and no fold changes the final_score of a stint
\* while its player is recorded on another team; while the player stays on
\* the team of a stint, the stint's final_score is the score last observed.
C30_FrozenOrRefreshed ==
    [][/\ StintsFrozen
       /\ \A i \in 1..Len(last'.players) :
             StaysOnTeam(i) =>
                 \A k \in StintsFor(player_team_scores', player_records',
                                    RecordOfPlayer(i), last'.players[i].Team) :
                     player_team_scores'[k].final_score
                         = last'.players[i].Frags]_vars
\* the team-change events of a record in a session with a flag set
FlaggedEvents(changes, session_id, p, flag) ==
    {i \in 1..Len(changes) :
        /\ changes[i].session_id = session_id
        /\ changes[i].player_id = p
        /\ changes[i][flag] = 1}

\* the sum of the wave numbers of a set of events, an absent one counting 0
RECURSIVE WavesOver(_, _)
WavesOver(changes, S) ==
    IF S = {} THEN 0
    ELSE LET i == CHOOSE x \in S : TRUE
         IN OrZero(changes[i].wave_number) + WavesOver(changes, S \ {i})

\* what the step adds to a column of a statistics table for the player of
\* the record p
StatAdded(stats_after, stats_before, p, column) ==
    StatOf(stats_after, player_records[p].steam_id, column)
        - StatOf(stats_before, player_records[p].steam_id, column)

\* C31: when a session closes, by whichever path, total_deaths of each of its
\* human players grows by the number of the player's death events in the
\* session, waves_survived by the sum of their wave numbers, and
\* total_redeems by the number of the player's redemption events.
C31_EventsFoldedOnce ==
    [][\A s \in ClosedByStep : \A p \in HumanRecords(player_records, s) :
          /\ StatAdded(player_death_stats', player_death_stats, p,
                       "total_deaths")
                = Cardinality(FlaggedEvents(player_team_changes, s, p,
                                            "is_death"))
          /\ StatAdded(player_death_stats', player_death_stats, p,
                       "waves_survived")
                = WavesOver(player_team_changes,
                            FlaggedEvents(player_team_changes, s, p,
                                          "is_death"))
          /\ StatAdded(player_redeem_stats', player_redeem_stats, p,
                       "total_redeems")
                = Cardinality(FlaggedEvents(player_team_changes, s, p,
                                            "is_redeem"))]_vars
\* the record that a closing session s holds of the i-th player of the
\* task's list, or 0
ClosingRecord(s, i) ==
    RecordOf(player_records, s, PlayerSteamId(last'.players[i]))

\* the ledger of the session s once the i-th player of the task's list has
\* been recorded in it
LedgerWithSnapshot(s, i) ==
    update_player_record(DB, s, PlayerSteamId(last'.players[i]),
                         last'.players[i].Team, last'.players[i].Frags,
                         PlayerIsBot(last'.players[i]), clock')

\* C32: in a cycle that closes a session, the fold of the closing session
\* comes after the player updates and the team-change events of the cycle:
\* the score it adds for a player of the snapshot is the session score of
\* the ledger with the snapshot recorded.
C32_FoldAfterPlayers ==
    [][\A s \in ClosedByStep : \A i \in 1..Len(last'.players) :
          (/\ ClosingRecord(s, i) # 0
           /\ player_records[ClosingRecord(s, i)].is_bot = 0
           /\ FoldedOnce(ClosingRecord(s, i))) =>
              ScoreAdded(ClosingRecord(s, i))
                  = total_session_score(LedgerWithSnapshot(s, i),
                                        ClosingRecord(s, i), s)]_vars
\* the task goes on with the session that was active on entry
SessionContinues ==
    /\ last'.op = "process_server"
    /\ last'.active_before # 0
    /\ last'.session_id = last'.active_before

\* C33: after every cycle in which the session continues, its two tracked
\* team counts are the snapshot's numbers of players on team 4 and on team
\* 3, 0 for a team without players, also when no player has a team or the
\* server is empty.
C33_TeamCountsFollow ==
    [][SessionContinues =>
          /\ game_sessions'[last'.session_id].team1_player_count
                = OnTeam(last'.players, 4)
          /\ game_sessions'[last'.session_id].team2_player_count
                = OnTeam(last'.players, 3)]_vars
\* the player counts of the snapshots recorded for a session
CountsOf(status, session_id) ==
    {status[i].player_count :
        i \in {j \in 1..Len(status) : status[j].session_id = session_id}}

\* the greatest element of a non-empty set of numbers
Greatest(S) == CHOOSE x \in S : \A y \in S : y <= x

\* C34: the peak player count of a session never decreases and, after every
\* cycle processed for the session, is the greatest player count of the
\* snapshots processed since the session was created.
C34_PeakPlayers ==
    [][/\ \A s \in 1..Len(game_sessions) :
             game_sessions'[s].peak_player_count
                 >= game_sessions[s].peak_player_count
       /\ (last'.op = "process_server" /\ Truthy(last'.session_id)) =>
             game_sessions'[last'.session_id].peak_player_count
                 = Greatest(CountsOf(server_status', last'.session_id))]_vars

\* a session has seen two players and then none: its peak is still 2
C34_Witness ==
    /\ last.op = "process_server"
    /\ last.player_count = 0
    /\ last.session_id = last.active_before
    /\ game_sessions[last.session_id].peak_player_count = 2
    /\ Cardinality(CountsOf(server_status, last.session_id)) >= 2
\* the scores observed for the record p never went down: the last one is
\* the highest, and not below the first
NeverDecreased(p) ==
    /\ player_records[p].initial_score <= player_records[p].current_score
    /\ player_records[p].current_score = player_records[p].highest_score

\* C35: for a human player whose observed scores never decrease in a
\* session, the score folded at the close of the session, the sum of
\* final_score - initial_score over the player's stints, is the last observed
\* score minus the first observed score, whatever the team switches.
C35_EarnedIsLastMinusFirst ==
    [][\A s \in ClosedByStep : \A p \in HumanRecords(player_records, s) :
          (/\ FoldedOnce(p)
           /\ NeverDecreased(p)
           /\ StintsOf(player_team_scores, player_records, p) # {}) =>
              ScoreAdded(p) = player_records[p].current_score
                                  - player_records[p].initial_score]_vars

\* the player whose player_stats row the worker w is about to write
UpsertOf(w) == player_records[Head(workers[w].players)]

\* C36: when two workers fold sessions of two servers that hold the same
\* human player, no update is lost: every fold adds its session score and
\* its playtime to the player's totals and one to session_count, whatever the
\* other worker did in between.
C36_NoLostUpdate ==
    [][\A w \in WorkerIds :
          (/\ Folding(w)
           /\ workers[w].pc = "upsert"
           /\ workers'[w] # workers[w]) =>
              /\ StatOf(player_stats', UpsertOf(w).steam_id, "total_score")
                   = StatOf(player_stats, UpsertOf(w).steam_id, "total_score")
                       + total_session_score(DB, Head(workers[w].players),
                                             workers[w].session_id)
              /\ StatOf(player_stats', UpsertOf(w).steam_id,
                        "total_playtime_seconds")
                   = StatOf(player_stats, UpsertOf(w).steam_id,
                            "total_playtime_seconds")
                       + playtime_seconds(DB, Head(workers[w].players))
              /\ StatOf(player_stats', UpsertOf(w).steam_id, "session_count")
                   = StatOf(player_stats, UpsertOf(w).steam_id,
                            "session_count") + 1]_vars

ClosedSessions(sessions) ==
    {s \in 1..Len(sessions) : sessions[s].is_active = 0}

\* C37: every closed session has an end time and a result, and once a
\* session is closed its is_active, end_time and session_result stay as
\* they are under every later cycle and every restart of the monitor.
C37_ClosedIsFinal ==
    [][/\ \A s \in ClosedSessions(game_sessions') :
             /\ game_sessions'[s].end_time # None
             /\ game_sessions'[s].session_result # NullText
       /\ \A s \in ClosedSessions(game_sessions) :
             /\ game_sessions'[s].is_active = 0
             /\ game_sessions'[s].end_time = game_sessions[s].end_time
             /\ game_sessions'[s].session_result
                  = game_sessions[s].session_result]_vars

\* a task of a server has run after one of the server's sessions was closed
\* with a result in an earlier cycle
C37_Witness ==
    /\ last.op = "process_server"
    /\ \E s \in ClosedSessions(game_sessions) :
          /\ game_sessions[s].server_id = last.server_id
          /\ game_sessions[s].end_time < clock
          /\ game_sessions[s].session_result # NullText

\* C38: a cycle whose wave text has no parsable number and that does not
\* close the session leaves the stored wave_number of the session as it was.
C38_WaveNumberKept ==
    [][(/\ SessionContinues
        /\ extract_wave_number(last'.current_wave) = None) =>
           game_sessions'[last'.session_id].wave_number
               = game_sessions[last'.session_id].wave_number]_vars

\* the update of the i-th player of the list runs to its commit: it is not
\* the team change whose INSERT for the old team raises (line 46)
UpdateCompletes(i) ==
    ~(/\ TeamChanged(i)
      /\ StintsFor(player_team_scores, player_records, RecordOfPlayer(i),
                   player_records[RecordOfPlayer(i)].team_id) = {})

\* the record of the i-th player of the list after the step
RecordAfter(i) ==
    RecordOf(player_records', last'.session_id,
             PlayerSteamId(last'.players[i]))

\* C39: whenever update_player_record completes for a player reported on a
\* known team, a stint exists for the player's record, the session and that
\* team, whatever was observed of the player before, a first appearance
\* without a team included.
C39_StintOfKnownTeam ==
    [][(last'.op = "process_server" /\ Truthy(last'.session_id)) =>
          \A i \in 1..Len(last'.players) :
             (last'.players[i].Team # None /\ UpdateCompletes(i)) =>
                /\ RecordAfter(i) # 0
                /\ StintsFor(player_team_scores', player_records',
                             RecordAfter(i), last'.players[i].Team) # {}]_vars

\* the task of the step got no session id from get_active_session
SessionFailed(task) ==
    /\ task.op = "process_server"
    /\ task.map_name = NullText
    /\ task.session_id = None

\* C40: when get_active_session fails and returns no session id, the cycle
\* writes no server_status row, no player record, no stint and no
\* team-change event for the server, and after the server's next cycle the
\* server still has at most one active session.
C40_FailedSessionWritesNothing ==
    [][/\ SessionFailed(last') =>
             /\ server_status' = server_status
             /\ player_records' = player_records
             /\ player_team_scores' = player_team_scores
             /\ player_team_changes' = player_team_changes
       /\ (SessionFailed(last) /\ last'.op = "process_server") =>
             Cardinality({s \in 1..Len(game_sessions') :
                             /\ game_sessions'[s].server_id = last'.server_id
                             /\ game_sessions'[s].is_active = 1}) <= 1]_vars
====
